---- MODULE Spec2Model ----
(***************************************************************************)
(* Course auto-registration and allocation engine.                         *)
(*                                                                         *)
(* The model follows src/simulation: the scoring engine (core/scoring.py), *)
(* the waitlist store over the in-memory sorted sets (core/waitlist.py),   *)
(* the allocation engine (core/allocation.py) and the registration service *)
(* (services/registration_service.py).                                     *)
(*                                                                         *)
(* Numbers.  Scores are floats in the source.  Here a component score is   *)
(* an integer number of thousandths, a weight an integer number of         *)
(* hundredths, and a composite score an integer number of 1/100000.  The   *)
(* entity data below is chosen so that every division of the source is     *)
(* exact at this scale.  allow_oversubscription is a percentage drawn from *)
(* values that a float represents exactly (0.0, 0.5).                      *)
(***************************************************************************)
EXTENDS Integers, Sequences, FiniteSets, TLC

\* ------------------------------------------------------------------ bounds
\* Operations one run of the sequential specification performs.
MaxOps == 3
\* Largest application delay, in multiples of time_decay_hours.
MaxHalvings == 1
\* Largest count asked of get_top_candidates.
MaxCount == 2

\* ---------------------------------------------------------------- entities
Students == {"s1", "s2", "s3"}
\* RegistrationService._courses, a dict: its values are listed in the order added.
CourseOrder == <<"c1", "c2">>
Courses == {CourseOrder[i] : i \in 1..Len(CourseOrder)}

\* Student.gpa, in hundredths of a grade point.
gpa == [s \in Students |-> IF s = "s3" THEN 240 ELSE 360]
\* Student.year
year == [s \in Students |-> IF s = "s3" THEN 1 ELSE 3]
\* Student.interests
interests == [s \in Students |-> IF s = "s3" THEN {} ELSE {"ml", "ai"}]
\* Student.completed_courses, as the students are added: s3 comes with or
\* without the prerequisite of c2.
Transcripts ==
    { [s \in Students |-> IF s = "s3" THEN done ELSE {"p1"}] : done \in {{}, {"p1"}} }

\* Course.capacity
capacity == [c \in Courses |-> IF c = "c1" THEN 2 ELSE 1]
\* Course.min_gpa, in hundredths of a grade point.
min_gpa == [c \in Courses |-> IF c = "c1" THEN 200 ELSE 250]
\* Course.prerequisites
prerequisites == [c \in Courses |-> IF c = "c1" THEN {} ELSE {"p1"}]
\* Course.tags
tags == [c \in Courses |-> IF c = "c1" THEN {"ml", "ai"} ELSE {"ml"}]
\* Course.preferred_years
preferred_years == [c \in Courses |-> IF c = "c1" THEN {3, 4} ELSE {2}]

\* CourseBookingState
BOOKING_CLOSED == "BOOKING_CLOSED"
BOOKING_OPEN == "BOOKING_OPEN"
COURSE_STARTED == "COURSE_STARTED"
COURSE_COMPLETED == "COURSE_COMPLETED"

\* RegistrationStatus
REGISTERED == "REGISTERED"
WAITLISTED == "WAITLISTED"
REJECTED == "REJECTED"

\* AllocationStrategy
BALANCED == "balanced"
STUDENT_OPTIMAL == "student_optimal"
Strategies == {BALANCED, STUDENT_OPTIMAL}

\* BatchAllocationConfig.allow_oversubscription, in percent.
OversubChoices == {0, 50}

\* The absence of a value (Python's None): of a status or a student id, and of
\* a number (a score, a position, a rank).
None == "None"
NoNumber == 0 - 1

\* StudentCoursePreferences.course_ids of every student who has preferences set
\* (RegistrationService._preferences); a student outside the domain has none.
\* The second profile names a course the service does not know ("c9") and
\* repeats a course.
PrefProfiles ==
    { [s \in {"s1", "s2", "s3"} |-> <<"c1", "c2">>],
      [s \in {"s1", "s2"} |-> IF s = "s1" THEN <<"c2", "c1">> ELSE <<"c2", "c9", "c2">>] }

\* --------------------------------------------------------------- variables
VARIABLES
    booking_state,       \* Course.booking_state
    current_enrollment,  \* Course.current_enrollment
    opened,              \* ScoringEngine._booking_open_times has the course
    enrollments,         \* AllocationEngine._enrollments: course -> set of students
    waitlist,            \* InMemoryRedis._sorted_sets["waitlist:c"], in insertion order
    locks,               \* InMemoryRedis._strings has "lock:course:c"
    completed_courses,   \* Student.completed_courses
    preferences,         \* RegistrationService._preferences
    strategy,            \* BatchAllocationConfig.strategy
    oversub,             \* BatchAllocationConfig.allow_oversubscription (percent)
    last,                \* the last call: its arguments and what it returned
    nops,                \* calls made so far
    thread,              \* the calls running on threads: position and locals
    completed,           \* the courses complete_course has returned True for
    ttl_elapsed,         \* courses whose lock outlived its timeout, the holder dead
    stop_batch,          \* RegistrationService._stop_batch (threading.Event) is set
    batch_thread,        \* RegistrationService._batch_thread
    worker,              \* the background threads: where each is in _batch_loop
    caller,              \* the threads calling start_auto_batch / stop_auto_batch
    stop_called,         \* stop_auto_batch has signalled and no start has run since
    batch                \* a batch allocation under way: position and locals

vars == <<booking_state, current_enrollment, opened, enrollments, waitlist, locks,
          completed_courses, preferences, strategy, oversub, last, nops, thread,
          completed, ttl_elapsed, stop_batch, batch_thread, worker, caller,
          stop_called, batch>>

\* ---------------------------------------------------------- small helpers
Min(a, b) == IF a <= b THEN a ELSE b
Max(a, b) == IF a >= b THEN a ELSE b
Abs(a) == IF a >= 0 THEN a ELSE 0 - a

RECURSIVE Pow2(_)
Pow2(k) == IF k = 0 THEN 1 ELSE 2 * Pow2(k - 1)

\* The elements of a sequence that satisfy Test, in order.
Filter(seq, Test(_)) == SelectSeq(seq, Test)

\* -------------------------------------------------------- scoring engine
\* ScoringWeights defaults, in hundredths.
gpa_weight == 35
interest_weight == 30
time_weight == 20
year_fit_weight == 10
prerequisite_weight == 5

\* ScoringEngine._compute_gpa_score, in thousandths.
ComputeGpaScore(s, c) ==
    IF gpa[s] < min_gpa[c] THEN 0
    ELSE LET base_score == (gpa[s] * 10) \div 4
             excess == gpa[s] - min_gpa[c]
             bonus == Min(100, (excess * 5) \div 10)
         IN  Min(1000, base_score + bonus)

\* ScoringEngine._compute_interest_score, in thousandths.
ComputeInterestScore(s, c) ==
    IF interests[s] = {} \/ tags[c] = {} THEN 500
    ELSE (1000 * Cardinality(interests[s] \cap tags[c]))
             \div Cardinality(interests[s] \cup tags[c])

\* ScoringEngine._compute_time_score, in thousandths, for an application made
\* k half-lives (k * time_decay_hours) after booking opened; an unknown opening
\* time counts as zero hours.
ComputeTimeScore(known, k) ==
    LET halvings == IF known THEN Max(0, k) ELSE 0
    IN  1000 \div Pow2(halvings)

\* ScoringEngine._compute_year_score, in thousandths.
ComputeYearScore(s, c) ==
    IF year[s] \in preferred_years[c] THEN 1000
    ELSE IF \E p \in preferred_years[c] : Abs(year[s] - p) = 1 THEN 500
    ELSE 250

\* ScoringEngine._compute_prerequisite_score, in thousandths.
ComputePrerequisiteScore(s, c) ==
    IF prerequisites[c] = {} THEN 1000
    ELSE (1000 * Cardinality(completed_courses[s] \cap prerequisites[c]))
             \div Cardinality(prerequisites[c])

\* ScoringEngine.compute_score: the composite score, in 1/100000.
ComputeScore(s, c, known, k) ==
    gpa_weight * ComputeGpaScore(s, c)
    + interest_weight * ComputeInterestScore(s, c)
    + time_weight * ComputeTimeScore(known, k)
    + year_fit_weight * ComputeYearScore(s, c)
    + prerequisite_weight * ComputePrerequisiteScore(s, c)

\* --------------------------------------------------------- waitlist store
\* A waitlist is the dict of one sorted set: a sequence of <<student, score>>
\* in insertion order, each student at most once.
Members(wl) == {wl[i][1] : i \in 1..Len(wl)}

IndexOf(wl, s) == CHOOSE i \in 1..Len(wl) : wl[i][1] = s

\* A zadd that always appends, which loses the uniqueness of C18.
ZAddAppend(wl, s, score) == Append(wl, <<s, score>>)

\* InMemoryRedis.zadd of one member: overwrite in place, or append.
ZAdd(wl, s, score) ==
    IF s \in Members(wl)
    THEN [wl EXCEPT ![IndexOf(wl, s)] = <<s, score>>]
    ELSE Append(wl, <<s, score>>)

\* InMemoryRedis.zrem of one member.
ZRem(wl, s) == LET Keep(e) == e[1] # s IN SelectSeq(wl, Keep)

\* InMemoryRedis.zscore
ZScore(wl, s) == IF s \in Members(wl) THEN wl[IndexOf(wl, s)][2] ELSE NoNumber

\* Python's stable sorted(..., key=score, reverse=True): descending score,
\* equal scores in their original order.
RECURSIVE InsertDesc(_, _)
InsertDesc(sorted, e) ==
    IF sorted = <<>> THEN <<e>>
    ELSE IF Head(sorted)[2] >= e[2] THEN <<Head(sorted)>> \o InsertDesc(Tail(sorted), e)
    ELSE <<e>> \o sorted

RECURSIVE SortDesc(_)
SortDesc(wl) ==
    IF wl = <<>> THEN <<>>
    ELSE InsertDesc(SortDesc(SubSeq(wl, 1, Len(wl) - 1)), wl[Len(wl)])

\* InMemoryRedis.zrevrange(key, start, stop, withscores=True)
ZRevRange(wl, start, stop) ==
    LET sorted == SortDesc(wl)
        stop1 == IF stop = -1 THEN Len(sorted) ELSE stop + 1
    IN  SubSeq(sorted, start + 1, Min(stop1, Len(sorted)))

\* InMemoryRedis.zrank in place of zrevrank: the rank in ascending order,
\* which loses the positions of C19.
ZRank(wl, s) ==
    IF s \notin Members(wl) THEN NoNumber
    ELSE LET sorted == SortDesc(wl) IN Len(wl) - IndexOf(sorted, s)

\* InMemoryRedis.zrevrank: 0-based rank in descending order, or no number.
ZRevRank(wl, s) ==
    IF s \notin Members(wl) THEN NoNumber
    ELSE LET sorted == SortDesc(wl) IN IndexOf(sorted, s) - 1

\* WaitlistManager.get_waitlist_position
GetWaitlistPosition(wl, s) ==
    LET rank == ZRevRank(wl, s) IN IF rank = NoNumber THEN NoNumber ELSE rank + 1

\* WaitlistManager.get_all_waitlisted
GetAllWaitlisted(wl) == ZRevRange(wl, 0, -1)

\* WaitlistManager.get_top_candidates
GetTopCandidates(wl, count) == ZRevRange(wl, 0, count - 1)

\* ----------------------------------------------------------------- entities
\* Course.available_seats
AvailableSeats(c, ce) == capacity[c] - ce[c]

\* Course.has_vacancy
HasVacancy(c, ce) == AvailableSeats(c, ce) > 0

\* StudentCoursePreferences.get_priority: 1-based rank, 999 when not listed.
GetPriority(course_ids, c) ==
    IF \E i \in 1..Len(course_ids) : course_ids[i] = c
    THEN CHOOSE i \in 1..Len(course_ids) :
             course_ids[i] = c /\ \A j \in 1..(i - 1) : course_ids[j] # c
    ELSE 999

\* AllocationEngine._check_prerequisites
CheckPrerequisites(s, c) ==
    IF prerequisites[c] = {} THEN TRUE ELSE prerequisites[c] \subseteq completed_courses[s]

\* max_capacity = int(course.capacity * (1 + allow_oversubscription))
MaxCapacity(c, pct) == (capacity[c] * (100 + pct)) \div 100

\* ------------------------------------------------------ allocation engine
\* AllocationResult
Result(s, c, status, message, score, pos) ==
    [sid |-> s, cid |-> c, status |-> status, message |-> message,
     score |-> score, pos |-> pos]

\* A call that returned None.
NoResult == Result(None, None, None, None, NoNumber, NoNumber)

\* AllocationEngine._enroll_student (_student_courses is the inverse map of
\* _enrollments: both are written together here and in process_dropout).
EnrollStudent(enr, s, c) == [enr EXCEPT ![c] = @ \cup {s}]

\* AllocationEngine.get_student_enrollments
StudentCourses(enr, s) == {c \in Courses : s \in enr[c]}

\* A rejection that has already put the student on the waitlist, which loses
\* the frame of C11.
RejectAfterAdd(s, c, m, score, wl) ==
    [wl |-> ZAdd(wl, s, score), res |-> Result(s, c, REJECTED, m, score, NoNumber)]

\* The REJECTED returns of apply_for_course: the waitlist is as it was.
RejectApplication(s, c, m, score, wl) ==
    [wl |-> wl, res |-> Result(s, c, REJECTED, m, score, NoNumber)]

\* AllocationEngine.apply_for_course on the waitlist wl of course c, whose
\* booking state is state; returns the new waitlist and the result.
ApplyForCourse(s, c, k, state, known, ce, wl) ==
    LET score == ComputeScore(s, c, known, k)
        added == ZAdd(wl, s, score)
        position == GetWaitlistPosition(added, s)
        Reject(m) == RejectApplication(s, c, m, score, wl)
        Wait(m) == [wl |-> added, res |-> Result(s, c, WAITLISTED, m, score, position)]
    IN  IF ~CheckPrerequisites(s, c) THEN Reject("Prerequisites not met")
        ELSE IF gpa[s] < min_gpa[c] THEN Reject("GPA below minimum")
        ELSE IF state = BOOKING_CLOSED THEN Wait("Booking not yet open")
        ELSE IF state = BOOKING_OPEN
             THEN IF HasVacancy(c, ce) THEN Wait("Processed in next batch")
                  ELSE Wait("Course full")
        ELSE IF state = COURSE_STARTED
             THEN IF HasVacancy(c, ce) THEN Wait("Late enrollment")
                  ELSE Wait("Course full and started")
        ELSE Reject("Registration closed")

\* AllocationEngine.manual_register run to completion; e is the engine state
\* [ce, enr, wl], held says whether the course lock is taken by someone else.
ManualRegister(s, c, state, held, e) ==
    LET Out(status, m) == [e EXCEPT !.res = Result(s, c, status, m, NoNumber, NoNumber)]
    IN  IF state # BOOKING_OPEN THEN Out(REJECTED, "Manual registration not available")
        ELSE IF ~HasVacancy(c, e.ce) THEN Out(REJECTED, "No vacancy available")
        ELSE IF ~CheckPrerequisites(s, c) THEN Out(REJECTED, "Prerequisites not met")
        ELSE IF held THEN Out(WAITLISTED, "System busy")
        ELSE IF ~HasVacancy(c, e.ce) THEN Out(WAITLISTED, "Vacancy filled while processing")
        ELSE [ce |-> [e.ce EXCEPT ![c] = @ + 1],
              enr |-> EnrollStudent(e.enr, s, c),
              wl |-> [e.wl EXCEPT ![c] = ZRem(@, s)],
              res |-> Result(s, c, REGISTERED, "Successfully registered", NoNumber, NoNumber)]

\* WaitlistManager.pop_top_candidate: the top entry (or <<>>) and the rest.
PopTopCandidate(wl) ==
    LET top == ZRevRange(wl, 0, 0)
    IN  IF top = <<>> THEN [top |-> <<>>, wl |-> wl]
        ELSE [top |-> top[1], wl |-> ZRem(wl, top[1][1])]

\* AllocationEngine.fill_vacancy run to completion.
FillVacancy(c, held, e) ==
    IF ~HasVacancy(c, e.ce) THEN [e EXCEPT !.res = NoResult]
    ELSE IF held THEN [e EXCEPT !.res = NoResult]
    ELSE LET popped == PopTopCandidate(e.wl[c])
         IN  IF popped.top = <<>> THEN [e EXCEPT !.res = NoResult]
             ELSE [ce |-> [e.ce EXCEPT ![c] = @ + 1],
                   enr |-> EnrollStudent(e.enr, popped.top[1], c),
                   wl |-> [e.wl EXCEPT ![c] = popped.wl],
                   res |-> Result(popped.top[1], c, REGISTERED,
                                  "Auto-registered from waitlist", popped.top[2], NoNumber)]

\* AllocationEngine.process_dropout run to completion.
ProcessDropout(s, c, held, e) ==
    IF s \notin e.enr[c] THEN [e EXCEPT !.res = NoResult]
    ELSE FillVacancy(c, held,
                     [e EXCEPT !.enr[c] = @ \ {s}, !.ce[c] = @ - 1])

\* --------------------------------------------------------- batch allocation
\* all_applications of _balanced_allocation: (student_id, course_id, score,
\* priority) for every waitlist entry of every course of the list whose booking
\* state is BOOKING_OPEN or BOOKING_CLOSED, course by course.
RECURSIVE AllApplications(_, _, _, _)
AllApplications(courses, bs, wl, prefs) ==
    IF courses = <<>> THEN <<>>
    ELSE LET c == Head(courses)
             waitlisted == GetAllWaitlisted(wl[c])
             Tuple(i) ==
                 LET s == waitlisted[i][1]
                 IN  [sid |-> s, cid |-> c, score |-> waitlisted[i][2],
                      priority |-> IF s \in DOMAIN prefs
                                   THEN GetPriority(prefs[s], c) ELSE 999]
             mine == IF bs[c] \in {BOOKING_OPEN, BOOKING_CLOSED}
                     THEN [i \in 1..Len(waitlisted) |-> Tuple(i)]
                     ELSE <<>>
         IN  mine \o AllApplications(Tail(courses), bs, wl, prefs)

\* A sort by ascending score, which loses the monotone cut of C5.
KeyAscending(a, b) == a.score < b.score \/ (a.score = b.score /\ a.priority <= b.priority)

\* A sort by descending score alone, which loses the tie-break of C32.
KeyScoreOnly(a, b) == a.score >= b.score

\* The sort key (-score, priority): a sorts no later than b.
KeyLE(a, b) == a.score > b.score \/ (a.score = b.score /\ a.priority <= b.priority)

\* all_applications.sort(key=lambda x: (-x[2], x[3])), a stable sort.
RECURSIVE InsertByKey(_, _)
InsertByKey(sorted, a) ==
    IF sorted = <<>> THEN <<a>>
    ELSE IF KeyLE(Head(sorted), a) THEN <<Head(sorted)>> \o InsertByKey(Tail(sorted), a)
    ELSE <<a>> \o sorted

RECURSIVE SortApplications(_)
SortApplications(apps) ==
    IF apps = <<>> THEN <<>>
    ELSE InsertByKey(SortApplications(SubSeq(apps, 1, Len(apps) - 1)), apps[Len(apps)])

\* The capacity test of _balanced_allocation: the enrollment the loop compares
\* with max_capacity.
BalancedEnrollment(ce, fills, c) == ce[c] + fills[c]

\* A loop that never skips a student, which loses the single registration of C4.
NeverAllocated(b, a) == FALSE

\* "if student_id in batch_allocations: continue"
AlreadyAllocated(b, a) == a.sid \in DOMAIN b.alloc

\* One iteration of the allocation loop of _balanced_allocation; b is
\* [ce, enr, wl, alloc, fills, results] with alloc = batch_allocations.
BalancedStep(b, a, pct) ==
    IF AlreadyAllocated(b, a) THEN b
    ELSE IF BalancedEnrollment(b.ce, b.fills, a.cid) >= MaxCapacity(a.cid, pct)
         THEN [b EXCEPT !.results =
                   Append(@, Result(a.sid, a.cid, WAITLISTED, "Course capacity reached",
                                    a.score, GetWaitlistPosition(b.wl[a.cid], a.sid)))]
         ELSE [ce |-> [b.ce EXCEPT ![a.cid] = @ + 1],
               enr |-> EnrollStudent(b.enr, a.sid, a.cid),
               wl |-> [b.wl EXCEPT ![a.cid] = ZRem(@, a.sid)],
               alloc |-> [s \in DOMAIN b.alloc \cup {a.sid} |->
                              IF s = a.sid THEN a.cid ELSE b.alloc[s]],
               fills |-> [b.fills EXCEPT ![a.cid] = @ + 1],
               results |-> Append(b.results,
                                  Result(a.sid, a.cid, REGISTERED, "Allocated to course",
                                         a.score, NoNumber))]

RECURSIVE BalancedLoop(_, _, _)
BalancedLoop(apps, b, pct) ==
    IF apps = <<>> THEN b
    ELSE BalancedLoop(Tail(apps), BalancedStep(b, Head(apps), pct), pct)

\* The empty function (an empty dict).
EmptyMap == [x \in {} |-> x]

\* AllocationEngine._balanced_allocation over the course list.
BalancedAllocation(courses, bs, prefs, pct, e) ==
    BalancedLoop(SortApplications(AllApplications(courses, bs, e.wl, prefs)),
                 [ce |-> e.ce, enr |-> e.enr, wl |-> e.wl, alloc |-> EmptyMap,
                  fills |-> [c \in Courses |-> 0], results |-> <<>>],
                 pct)

\* The elements of a sequence, as a set.
Range(seq) == {seq[i] : i \in 1..Len(seq)}

\* The orders in which a loop may visit a set of students (Python iterates a set
\* in an order the program does not choose).
Orders == {o \in [1..Cardinality(Students) -> Students] : Range(o) = Students}

\* student_scores[student_id].get(course_id, 0) of _student_optimal_allocation.
StudentScore(wl, s, c) == IF s \in Members(wl[c]) THEN ZScore(wl[c], s) ELSE 0

\* A proposal that leaves the index where it is when the course is not in the
\* batch, which loses the termination of C34.
ProposeWithoutAdvance(d, s, prefs, course_map, wl) ==
    IF s \notin DOMAIN prefs THEN d
    ELSE IF d.idx[s] >= Len(prefs[s]) THEN d
    ELSE LET c == prefs[s][d.idx[s] + 1]
             d1 == [d EXCEPT !.idx[s] = @ + 1]
         IN  IF c \notin course_map THEN [d EXCEPT !.new_active = @ \cup {s}]
             ELSE [d1 EXCEPT !.tentative[c] = Append(@, <<s, StudentScore(wl, s, c)>>),
                             !.tkeys = IF c \in Range(@) THEN @ ELSE Append(@, c)]

\* The proposal of one active student in one round; d is
\* [idx, tentative, tkeys, new_active], tkeys being the keys of the dict
\* tentative in insertion order, and course_map the set of courses of the batch.
ProposeStep(d, s, prefs, course_map, wl) ==
    IF s \notin DOMAIN prefs THEN d
    ELSE IF d.idx[s] >= Len(prefs[s]) THEN d
    ELSE LET c == prefs[s][d.idx[s] + 1]
             d1 == [d EXCEPT !.idx[s] = @ + 1]
         IN  IF c \notin course_map THEN [d1 EXCEPT !.new_active = @ \cup {s}]
             ELSE [d1 EXCEPT !.tentative[c] = Append(@, <<s, StudentScore(wl, s, c)>>),
                             !.tkeys = IF c \in Range(@) THEN @ ELSE Append(@, c)]

RECURSIVE ProposeLoop(_, _, _, _, _, _)
ProposeLoop(order, active, d, prefs, course_map, wl) ==
    IF order = <<>> THEN d
    ELSE ProposeLoop(Tail(order), active,
                     IF Head(order) \in active
                     THEN ProposeStep(d, Head(order), prefs, course_map, wl) ELSE d,
                     prefs, course_map, wl)

\* Proposals kept in their order of arrival, which loses the stability of C7.
ArrivalOrder(proposals) == proposals

\* proposals.sort(key=lambda x: -x[1])
SortProposals(proposals) == SortDesc(proposals)

\* accepted = proposals[:max_capacity]
Accepted(proposals, c, pct) ==
    SubSeq(SortProposals(proposals), 1, Min(MaxCapacity(c, pct), Len(proposals)))

\* rejected = proposals[max_capacity:]
Rejected(proposals, c, pct) ==
    SubSeq(SortProposals(proposals), Min(MaxCapacity(c, pct), Len(proposals)) + 1,
           Len(proposals))

\* "Each course keeps the best candidates", over the keys of tentative.
RECURSIVE KeepLoop(_, _, _)
KeepLoop(keys, d, pct) ==
    IF keys = <<>> THEN d
    ELSE LET c == Head(keys)
             proposals == d.tentative[c]
         IN  KeepLoop(Tail(keys),
                      [d EXCEPT !.tentative[c] = Accepted(proposals, c, pct),
                                !.new_active = @ \cup Members(Rejected(proposals, c, pct))],
                      pct)

\* The while loop of _student_optimal_allocation.
RECURSIVE ProposalRounds(_, _, _, _, _, _, _)
ProposalRounds(active, d, order, prefs, course_map, wl, pct) ==
    IF active = {} THEN d
    ELSE LET proposed == ProposeLoop(order, active, [d EXCEPT !.new_active = {}],
                                     prefs, course_map, wl)
             kept == KeepLoop(proposed.tkeys, proposed, pct)
         IN  ProposalRounds(kept.new_active, kept, order, prefs, course_map, wl, pct)

\* "Finalize allocations": one accepted (student, score) of course c.
FinalizeStep(b, c, entry, prefs) ==
    [ce |-> [b.ce EXCEPT ![c] = @ + 1],
     enr |-> EnrollStudent(b.enr, entry[1], c),
     wl |-> [b.wl EXCEPT ![c] = ZRem(@, entry[1])],
     alloc |-> [s \in DOMAIN b.alloc \cup {entry[1]} |->
                    IF s = entry[1] THEN c ELSE b.alloc[s]],
     fills |-> b.fills,
     results |-> Append(b.results,
                        Result(entry[1], c, REGISTERED, "Allocated to course",
                               entry[2], NoNumber))]

RECURSIVE FinalizeCourse(_, _, _, _)
FinalizeCourse(accepted, b, c, prefs) ==
    IF accepted = <<>> THEN b
    ELSE FinalizeCourse(Tail(accepted), FinalizeStep(b, c, Head(accepted), prefs), c, prefs)

RECURSIVE FinalizeLoop(_, _, _, _)
FinalizeLoop(keys, tentative, b, prefs) ==
    IF keys = <<>> THEN b
    ELSE FinalizeLoop(Tail(keys), tentative,
                      FinalizeCourse(tentative[Head(keys)], b, Head(keys), prefs), prefs)

\* The tentative acceptances the proposal rounds end with, and the dict's keys.
Tentative(courses, order, prefs, pct, wl) ==
    ProposalRounds(DOMAIN prefs,
                   [idx |-> [s \in DOMAIN prefs |-> 0],
                    tentative |-> [c \in Courses |-> <<>>],
                    tkeys |-> <<>>, new_active |-> {}],
                   order, prefs, Range(courses), wl, pct)

\* AllocationEngine._student_optimal_allocation over the course list.
StudentOptimalAllocation(courses, order, prefs, pct, e) ==
    LET d == Tentative(courses, order, prefs, pct, e.wl)
    IN  FinalizeLoop(d.tkeys, d.tentative,
                     [ce |-> e.ce, enr |-> e.enr, wl |-> e.wl, alloc |-> EmptyMap,
                      fills |-> [c \in Courses |-> 0], results |-> <<>>],
                     prefs)

\* AllocationEngine.run_batch_allocation: dispatch on the strategy.
RunBatchAllocation(strat, courses, bs, order, prefs, pct, e) ==
    IF strat = BALANCED THEN BalancedAllocation(courses, bs, prefs, pct, e)
    ELSE IF strat = STUDENT_OPTIMAL THEN StudentOptimalAllocation(courses, order, prefs, pct, e)
    ELSE BalancedAllocation(courses, bs, prefs, pct, e)

\* ----------------------------------------------------- registration service
\* The course list of RegistrationService.run_allocation: the known courses
\* among course_ids when the argument is truthy, every course otherwise.
\* given is false when the argument is omitted (None).
SelectedCourses(given, course_ids) ==
    IF given /\ course_ids # <<>>
    THEN LET Known(c) == c \in Courses IN SelectSeq(course_ids, Known)
    ELSE CourseOrder

\* A course list that is not filtered by booking state, which loses the frame
\* of C35.
UnfilteredCourses(given, course_ids, bs) == SelectedCourses(given, course_ids)

\* eligible_courses of RegistrationService.run_allocation.
EligibleCourses(given, course_ids, bs) ==
    LET Eligible(c) == bs[c] \in {BOOKING_OPEN, BOOKING_CLOSED}
    IN  SelectSeq(SelectedCourses(given, course_ids), Eligible)

\* The course_ids arguments run_allocation is called with: omitted, or a list.
CourseIdArgs ==
    {[given |-> FALSE, ids |-> <<>>]}
    \cup {[given |-> TRUE, ids |-> l] : l \in {<<>>, <<"c1">>, <<"c2">>}}

\* ------------------------------------------------------------------ state
\* The engine state the operators above work on.
Engine == [ce |-> current_enrollment, enr |-> enrollments, wl |-> waitlist,
           res |-> NoResult]

\* The record of a call.
Call(op, s, c, res, results, courses) ==
    [op |-> op, sid |-> s, cid |-> c, res |-> res, results |-> results,
     courses |-> courses, before |-> NoNumber, count |-> NoNumber]

Config == <<completed_courses, preferences, strategy, oversub>>

\* The periodic batch: its signal, its thread, and who starts and stops it.
Background == <<stop_batch, batch_thread, worker, caller, stop_called>>

\* The background threads start_auto_batch can create, and the threads that
\* call start_auto_batch and stop_auto_batch.
WorkerOrder == <<"w1", "w2">>
Workers == {WorkerOrder[i] : i \in 1..Len(WorkerOrder)}
Callers == {"a1", "a2"}

\* Only the student-optimal strategy iterates a set of students.
VisitOrders ==
    IF strategy = STUDENT_OPTIMAL THEN Orders
    ELSE {CHOOSE o \in Orders : TRUE}

\* ------------------------------------------------------------------ threads
\* The threads that call the service at the same time.
Threads == {"t1", "t2"}

\* A thread that has made no call yet. tmp and top are the locals of the call
\* (the value read for current_enrollment, the popped candidate); ce0, seats0
\* and with record what the call started from: the course's enrollment, its
\* available seats, and the threads whose call was then under way.
Idle ==
    [pc |-> "idle", op |-> None, sid |-> None, cid |-> None, tmp |-> 0,
     top |-> <<>>, res |-> NoResult, ce0 |-> 0, seats0 |-> 0, with |-> {}]

\* RegistrationService.__init__, then add_course / add_student / set_preferences
\* for the entities above: courses start BOOKING_CLOSED with no enrollment.
InitWith(oversubs) ==
    /\ booking_state = [c \in Courses |-> BOOKING_CLOSED]
    /\ current_enrollment = [c \in Courses |-> 0]
    /\ opened = [c \in Courses |-> FALSE]
    /\ enrollments = [c \in Courses |-> {}]
    /\ waitlist = [c \in Courses |-> <<>>]
    /\ locks = [c \in Courses |-> FALSE]
    /\ completed_courses \in Transcripts
    /\ preferences \in PrefProfiles
    /\ strategy \in Strategies
    /\ oversub \in oversubs
    /\ last = Call("init", None, None, NoResult, <<>>, <<>>)
    /\ nops = 0
    /\ thread = [t \in Threads |-> Idle]
    /\ completed = {}
    /\ ttl_elapsed = {}
    /\ stop_batch = FALSE
    /\ batch_thread = None
    /\ worker = [w \in Workers |-> "unborn"]
    /\ caller = [a \in Callers |-> [pc |-> "idle", calls |-> 0]]
    /\ stop_called = FALSE
    /\ batch = [pc |-> "idle"]

Init == InitWith(OversubChoices)

\* The ids the service is called with: those it knows, and one it does not.
StudentIds == Students \cup {"s9"}
CourseIds == Courses \cup {"c9"}

\* RegistrationService.apply on the waitlists wls of all courses: the lookups,
\* then apply_for_course; returns the new waitlists and the result.
ServiceApply(s, c, k, wls) ==
    IF s \notin Students
    THEN [wl |-> wls, res |-> Result(s, c, REJECTED, "Student not found", NoNumber, NoNumber)]
    ELSE IF c \notin Courses
    THEN [wl |-> wls, res |-> Result(s, c, REJECTED, "Course not found", NoNumber, NoNumber)]
    ELSE LET r == ApplyForCourse(s, c, k, booking_state[c], opened[c],
                                 current_enrollment, wls[c])
         IN  [wl |-> [wls EXCEPT ![c] = r.wl], res |-> r.res]

\* The loop of RegistrationService.apply_all over preferences.course_ids.
RECURSIVE ApplyAllLoop(_, _, _, _)
ApplyAllLoop(course_ids, s, k, acc) ==
    IF course_ids = <<>> THEN acc
    ELSE LET r == ServiceApply(s, Head(course_ids), k, acc.wl)
         IN  ApplyAllLoop(Tail(course_ids), s, k,
                          [wl |-> r.wl, results |-> Append(acc.results, r.res)])

\* RegistrationService.apply_all: the new waitlists and the list of results.
ServiceApplyAll(s, k) ==
    IF s \notin DOMAIN preferences
    THEN [wl |-> waitlist,
          results |-> <<Result(s, "", REJECTED, "No preferences set for student",
                               NoNumber, NoNumber)>>]
    ELSE ApplyAllLoop(preferences[s], s, k, [wl |-> waitlist, results |-> <<>>])

\* An apply that registers at once when booking is open and a seat is free,
\* which loses the frame of C13.
ApplyWithEnrollment(s, c, k) ==
    /\ nops < MaxOps
    /\ \E r \in {ServiceApply(s, c, k, waitlist)} :
           LET now == /\ r.res.status = WAITLISTED
                      /\ booking_state[c] = BOOKING_OPEN
                      /\ HasVacancy(c, current_enrollment)
           IN  /\ waitlist' = IF now THEN waitlist ELSE r.wl
               /\ enrollments' = IF now THEN EnrollStudent(enrollments, s, c)
                                 ELSE enrollments
               /\ current_enrollment' =
                      IF now THEN [current_enrollment EXCEPT ![c] = @ + 1]
                      ELSE current_enrollment
               /\ last' = Call("apply", s, c, r.res, <<>>, <<>>)
    /\ nops' = nops + 1
    /\ UNCHANGED <<booking_state, opened, locks, Config, thread, completed, ttl_elapsed, Background, batch>>

\* WaitlistManager.get_student_score, for the record of a call: the score
\* held for the student when the call is made.
StoredScore(s, c) ==
    IF s \in Students /\ c \in Courses THEN ZScore(waitlist[c], s) ELSE NoNumber

\* RegistrationService.apply(student_id, course_id, applied_at), applied_at
\* lying k half-lives after the course's booking opened.
Apply(s, c, k) ==
    /\ nops < MaxOps
    /\ \E r \in {ServiceApply(s, c, k, waitlist)} :
           /\ waitlist' = r.wl
           /\ last' = [Call("apply", s, c, r.res, <<>>, <<>>)
                          EXCEPT !.before = StoredScore(s, c)]
    /\ nops' = nops + 1
    /\ UNCHANGED <<booking_state, current_enrollment, opened, enrollments, locks, Config, thread, completed, ttl_elapsed, Background, batch>>

\* RegistrationService.apply_all(student_id, applied_at)
ApplyAll(s, k) ==
    /\ nops < MaxOps
    /\ \E r \in {ServiceApplyAll(s, k)} :
           /\ waitlist' = r.wl
           /\ last' = Call("apply_all", s, None, NoResult, r.results, <<>>)
    /\ nops' = nops + 1
    /\ UNCHANGED <<booking_state, current_enrollment, opened, enrollments, locks, Config, thread, completed, ttl_elapsed, Background, batch>>

\* RegistrationService.manual_register: the lookups, then the engine's call.
ServiceManualRegister(s, c) ==
    IF s \notin Students
    THEN [Engine EXCEPT !.res = Result(s, c, REJECTED, "Student not found",
                                       NoNumber, NoNumber)]
    ELSE IF c \notin Courses
    THEN [Engine EXCEPT !.res = Result(s, c, REJECTED, "Course not found",
                                       NoNumber, NoNumber)]
    ELSE ManualRegister(s, c, booking_state[c], locks[c], Engine)

\* RegistrationService.manual_register(student_id, course_id)
ManualRegisterCall(s, c) ==
    /\ nops < MaxOps
    /\ \E r \in {ServiceManualRegister(s, c)} :
           /\ current_enrollment' = r.ce
           /\ enrollments' = r.enr
           /\ waitlist' = r.wl
           /\ last' = Call("manual_register", s, c, r.res, <<>>, <<>>)
    /\ nops' = nops + 1
    /\ UNCHANGED <<booking_state, opened, locks, Config, thread, completed, ttl_elapsed, Background, batch>>

\* RegistrationService.run_allocation(course_ids)
RunAllocation(given, course_ids, order) ==
    /\ nops < MaxOps
    /\ \E courses \in {EligibleCourses(given, course_ids, booking_state)} :
       \E r \in {RunBatchAllocation(strategy, courses, booking_state, order,
                                    preferences, oversub, Engine)} :
           /\ current_enrollment' = r.ce
           /\ enrollments' = r.enr
           /\ waitlist' = r.wl
           /\ last' = Call("run_allocation", None, None, NoResult, r.results, courses)
    /\ nops' = nops + 1
    /\ UNCHANGED <<booking_state, opened, locks, Config, thread, completed, ttl_elapsed, Background, batch>>

\* RegistrationService.process_dropout(student_id, course_id)
ProcessDropoutCall(s, c) ==
    /\ nops < MaxOps
    /\ \E r \in {ProcessDropout(s, c, locks[c], Engine)} :
           /\ current_enrollment' = r.ce
           /\ enrollments' = r.enr
           /\ waitlist' = r.wl
           /\ last' = Call("process_dropout", s, c, r.res, <<>>, <<>>)
    /\ nops' = nops + 1
    /\ UNCHANGED <<booking_state, opened, locks, Config, thread, completed, ttl_elapsed, Background, batch>>

\* RegistrationService.open_booking(course_id)
OpenBooking(c) ==
    /\ nops < MaxOps
    /\ booking_state' = [booking_state EXCEPT ![c] = BOOKING_OPEN]
    /\ opened' = [opened EXCEPT ![c] = TRUE]
    /\ last' = Call("open_booking", None, c, NoResult, <<>>, <<>>)
    /\ nops' = nops + 1
    /\ UNCHANGED <<current_enrollment, enrollments, waitlist, locks, Config, thread, completed, ttl_elapsed, Background, batch>>

\* RegistrationService.close_booking(course_id)
CloseBooking(c) ==
    /\ nops < MaxOps
    /\ booking_state' = [booking_state EXCEPT ![c] = COURSE_STARTED]
    /\ last' = Call("close_booking", None, c, NoResult, <<>>, <<>>)
    /\ nops' = nops + 1
    /\ UNCHANGED <<current_enrollment, opened, enrollments, waitlist, locks, Config, thread, completed, ttl_elapsed, Background, batch>>

\* RegistrationService.complete_course(course_id)
CompleteCourse(c) ==
    /\ nops < MaxOps
    /\ booking_state' = [booking_state EXCEPT ![c] = COURSE_COMPLETED]
    /\ last' = Call("complete_course", None, c, NoResult, <<>>, <<>>)
    /\ completed' = completed \cup {c}
    /\ nops' = nops + 1
    /\ UNCHANGED <<current_enrollment, opened, enrollments, waitlist, locks, Config, thread,
                   ttl_elapsed, Background, batch>>

\* RegistrationService.get_waitlist_status(student_id, course_id): the
\* position and the score it reports; it changes nothing.
GetWaitlistStatus(s, c) ==
    /\ last' = Call("get_waitlist_status", s, c,
                    Result(s, c, None, None, ZScore(waitlist[c], s),
                           GetWaitlistPosition(waitlist[c], s)),
                    <<>>, <<>>)
    /\ UNCHANGED <<booking_state, current_enrollment, opened, enrollments, waitlist,
                   locks, Config, nops, thread, completed, ttl_elapsed, Background, batch>>

\* WaitlistManager.get_top_candidates(course_id, count): the list it returns;
\* it changes nothing.
TopCandidates(c, count) ==
    /\ last' = [Call("get_top_candidates", None, c, NoResult,
                     GetTopCandidates(waitlist[c], count), <<>>)
                   EXCEPT !.count = count]
    /\ UNCHANGED <<booking_state, current_enrollment, opened, enrollments, waitlist,
                   locks, Config, nops, thread, completed, ttl_elapsed, Background, batch>>

Next ==
    \/ \E s \in StudentIds, c \in CourseIds, k \in 0..MaxHalvings : Apply(s, c, k)
    \/ \E s \in Students, k \in 0..MaxHalvings : ApplyAll(s, k)
    \/ \E s \in StudentIds, c \in CourseIds : ManualRegisterCall(s, c)
    \/ \E arg \in CourseIdArgs, order \in VisitOrders :
           RunAllocation(arg.given, arg.ids, order)
    \/ \E s \in Students, c \in Courses : ProcessDropoutCall(s, c)
    \/ \E c \in Courses : OpenBooking(c)
    \/ \E c \in Courses : CloseBooking(c)
    \/ \E c \in Courses : CompleteCourse(c)
    \/ \E s \in Students, c \in Courses : GetWaitlistStatus(s, c)
    \/ \E c \in Courses, count \in 0..MaxCount : TopCandidates(c, count)

Spec == Init /\ [][Next]_vars

\* ------------------------------------------------------- concurrent callers
\* Two threads call manual_register and process_dropout at the same time. A
\* step is one read or one write of shared state: Python gives the statements
\* of InMemoryRedis.set, of "current_enrollment += 1" and of pop_top_candidate
\* no atomicity, so another thread may run between any two of them.

\* Calls made one after another before the threads start.
MaxSetup == 2

Running(t) == thread[t].pc \notin {"idle", "done"}

\* The call of thread t moves on to a label, or returns.
Goto(t, label) == [thread EXCEPT ![t].pc = label]
Return(t, res) == [thread EXCEPT ![t].pc = "done", ![t].res = res]

\* The start of a call of thread t.
Started(t, op, s, c, label) ==
    [thread EXCEPT ![t] = [Idle EXCEPT !.pc = label, !.op = op, !.sid = s, !.cid = c,
                                       !.ce0 = current_enrollment[c],
                                       !.seats0 = AvailableSeats(c, current_enrollment),
                                       !.with = {u \in Threads : Running(u)}
                                           \cup (IF batch.pc \in {"idle", "done"} THEN {}
                                                 ELSE {"batch"})]]

EngineState == <<current_enrollment, enrollments, waitlist, locks>>
Fixed == <<booking_state, opened, Config, last, nops, completed, ttl_elapsed, Background, batch>>

\* manual_register: the checks made before the lock is taken.
MrCheck(t, s, c) ==
    /\ thread[t].pc = "idle"
    /\ LET th == Started(t, "manual_register", s, c, "lock_test")
           Out(m) == [th EXCEPT ![t].pc = "done",
                                ![t].res = Result(s, c, REJECTED, m, NoNumber, NoNumber)]
       IN  thread' =
               IF booking_state[c] # BOOKING_OPEN
               THEN Out("Manual registration not available")
               ELSE IF ~HasVacancy(c, current_enrollment) THEN Out("No vacancy available")
               ELSE IF ~CheckPrerequisites(s, c) THEN Out("Prerequisites not met")
               ELSE th
    /\ UNCHANGED <<EngineState, Fixed>>

\* InMemoryRedis.set(key, "locked", nx=True): "if nx and key in self._strings".
LockTest(t) ==
    /\ thread[t].pc = "lock_test"
    /\ thread' =
           IF locks[thread[t].cid]
           THEN IF thread[t].op = "manual_register"
                THEN Return(t, Result(thread[t].sid, thread[t].cid, WAITLISTED,
                                      "System busy", NoNumber, NoNumber))
                ELSE Return(t, NoResult)
           ELSE Goto(t, "lock_set")
    /\ UNCHANGED <<EngineState, Fixed>>

\* InMemoryRedis.set: "self._strings[key] = value".
LockSet(t) ==
    /\ thread[t].pc = "lock_set"
    /\ locks' = [locks EXCEPT ![thread[t].cid] = TRUE]
    /\ thread' = Goto(t, IF thread[t].op = "manual_register" THEN "mr_recheck"
                         ELSE "fv_top")
    /\ UNCHANGED <<current_enrollment, enrollments, waitlist, Fixed>>

\* A double check that returns on the lost vacancy without the finally block.
RecheckSkipsRelease(t) ==
    /\ thread[t].pc = "mr_recheck"
    /\ thread' =
           IF ~HasVacancy(thread[t].cid, current_enrollment)
           THEN Return(t, Result(thread[t].sid, thread[t].cid, WAITLISTED,
                                 "Vacancy filled while processing", NoNumber, NoNumber))
           ELSE Goto(t, "mr_enroll")
    /\ UNCHANGED <<EngineState, Fixed>>

\* manual_register: "Double-check vacancy after acquiring lock".
MrRecheck(t) ==
    /\ thread[t].pc = "mr_recheck"
    /\ thread' =
           IF ~HasVacancy(thread[t].cid, current_enrollment)
           THEN [thread EXCEPT ![t].pc = "unlock",
                               ![t].res = Result(thread[t].sid, thread[t].cid, WAITLISTED,
                                                 "Vacancy filled while processing",
                                                 NoNumber, NoNumber)]
           ELSE Goto(t, "mr_enroll")
    /\ UNCHANGED <<EngineState, Fixed>>

\* manual_register: self._enroll_student(student_id, course_id)
MrEnroll(t) ==
    /\ thread[t].pc = "mr_enroll"
    /\ enrollments' = EnrollStudent(enrollments, thread[t].sid, thread[t].cid)
    /\ thread' = Goto(t, "inc_read")
    /\ UNCHANGED <<current_enrollment, waitlist, locks, Fixed>>

\* "course.current_enrollment += 1": the read.
IncRead(t) ==
    /\ thread[t].pc = "inc_read"
    /\ thread' = [thread EXCEPT ![t].pc = "inc_write",
                                ![t].tmp = current_enrollment[thread[t].cid]]
    /\ UNCHANGED <<EngineState, Fixed>>

\* "course.current_enrollment += 1": the write; fill_vacancy then returns.
IncWrite(t) ==
    /\ thread[t].pc = "inc_write"
    /\ current_enrollment' = [current_enrollment EXCEPT ![thread[t].cid] = thread[t].tmp + 1]
    /\ thread' =
           IF thread[t].op = "manual_register" THEN Goto(t, "mr_zrem")
           ELSE [thread EXCEPT ![t].pc = "unlock",
                               ![t].res = Result(thread[t].top[1], thread[t].cid, REGISTERED,
                                                 "Auto-registered from waitlist",
                                                 thread[t].top[2], NoNumber)]
    /\ UNCHANGED <<enrollments, waitlist, locks, Fixed>>

\* manual_register: self.waitlist.remove_from_waitlist(...), then the return.
MrZrem(t) ==
    /\ thread[t].pc = "mr_zrem"
    /\ waitlist' = [waitlist EXCEPT ![thread[t].cid] = ZRem(@, thread[t].sid)]
    /\ thread' = [thread EXCEPT ![t].pc = "unlock",
                                ![t].res = Result(thread[t].sid, thread[t].cid, REGISTERED,
                                                  "Successfully registered",
                                                  NoNumber, NoNumber)]
    /\ UNCHANGED <<current_enrollment, enrollments, locks, Fixed>>

\* "finally: self.waitlist.release_course_lock(course.course_id)"
Unlock(t) ==
    /\ thread[t].pc = "unlock"
    /\ locks' = [locks EXCEPT ![thread[t].cid] = FALSE]
    /\ thread' = Goto(t, "done")
    /\ UNCHANGED <<current_enrollment, enrollments, waitlist, Fixed>>

\* process_dropout: "if student_id not in self._enrollments.get(...)".
PdCheck(t, s, c) ==
    /\ thread[t].pc = "idle"
    /\ LET th == Started(t, "process_dropout", s, c, "pd_discard")
       IN  thread' = IF s \notin enrollments[c]
                     THEN [th EXCEPT ![t].pc = "done"]
                     ELSE th
    /\ UNCHANGED <<EngineState, Fixed>>

\* process_dropout: the two discard calls.
PdDiscard(t) ==
    /\ thread[t].pc = "pd_discard"
    /\ enrollments' = [enrollments EXCEPT ![thread[t].cid] = @ \ {thread[t].sid}]
    /\ thread' = Goto(t, "dec_read")
    /\ UNCHANGED <<current_enrollment, waitlist, locks, Fixed>>

\* "course.current_enrollment -= 1": the read.
DecRead(t) ==
    /\ thread[t].pc = "dec_read"
    /\ thread' = [thread EXCEPT ![t].pc = "dec_write",
                                ![t].tmp = current_enrollment[thread[t].cid]]
    /\ UNCHANGED <<EngineState, Fixed>>

\* "course.current_enrollment -= 1": the write.
DecWrite(t) ==
    /\ thread[t].pc = "dec_write"
    /\ current_enrollment' = [current_enrollment EXCEPT ![thread[t].cid] = thread[t].tmp - 1]
    /\ thread' = Goto(t, "fv_vacancy")
    /\ UNCHANGED <<enrollments, waitlist, locks, Fixed>>

\* fill_vacancy: "if not course.has_vacancy: return None".
FvVacancy(t) ==
    /\ thread[t].pc = "fv_vacancy"
    /\ thread' = IF ~HasVacancy(thread[t].cid, current_enrollment)
                 THEN Return(t, NoResult)
                 ELSE Goto(t, "lock_test")
    /\ UNCHANGED <<EngineState, Fixed>>

\* pop_top_candidate: zrevrange(key, 0, 0); fill_vacancy returns None without one.
FvTop(t) ==
    /\ thread[t].pc = "fv_top"
    /\ LET top == ZRevRange(waitlist[thread[t].cid], 0, 0)
       IN  thread' = IF top = <<>>
                     THEN [thread EXCEPT ![t].pc = "unlock", ![t].res = NoResult]
                     ELSE [thread EXCEPT ![t].pc = "fv_zrem", ![t].top = top[1]]
    /\ UNCHANGED <<EngineState, Fixed>>

\* pop_top_candidate: zrem(key, student_id).
FvZrem(t) ==
    /\ thread[t].pc = "fv_zrem"
    /\ waitlist' = [waitlist EXCEPT ![thread[t].cid] = ZRem(@, thread[t].top[1])]
    /\ thread' = Goto(t, "fv_enroll")
    /\ UNCHANGED <<current_enrollment, enrollments, locks, Fixed>>

\* fill_vacancy: self._enroll_student(student_id, course.course_id)
FvEnroll(t) ==
    /\ thread[t].pc = "fv_enroll"
    /\ enrollments' = EnrollStudent(enrollments, thread[t].top[1], thread[t].cid)
    /\ thread' = Goto(t, "inc_read")
    /\ UNCHANGED <<current_enrollment, waitlist, locks, Fixed>>

\* The calls that set the scene, made before any thread starts.
Setup ==
    /\ \A t \in Threads : thread[t].pc = "idle"
    /\ nops < MaxSetup
    /\ \/ \E c \in Courses : OpenBooking(c)
       \/ \E s \in Students, c \in Courses, k \in 0..MaxHalvings : Apply(s, c, k)
       \/ \E s \in Students, c \in Courses : ManualRegisterCall(s, c)

NextThreads ==
    \/ Setup
    \/ \E t \in Threads, s \in Students, c \in Courses : MrCheck(t, s, c)
    \/ \E t \in Threads, s \in Students, c \in Courses : PdCheck(t, s, c)
    \/ \E t \in Threads : LockTest(t)
    \/ \E t \in Threads : LockSet(t)
    \/ \E t \in Threads : MrRecheck(t)
    \/ \E t \in Threads : MrEnroll(t)
    \/ \E t \in Threads : IncRead(t)
    \/ \E t \in Threads : IncWrite(t)
    \/ \E t \in Threads : MrZrem(t)
    \/ \E t \in Threads : Unlock(t)
    \/ \E t \in Threads : PdDiscard(t)
    \/ \E t \in Threads : DecRead(t)
    \/ \E t \in Threads : DecWrite(t)
    \/ \E t \in Threads : FvVacancy(t)
    \/ \E t \in Threads : FvTop(t)
    \/ \E t \in Threads : FvZrem(t)
    \/ \E t \in Threads : FvEnroll(t)

\* The batch configuration plays no part in these calls.
InitThreads ==
    /\ Init
    /\ strategy = BALANCED
    /\ oversub = 0
    /\ DOMAIN preferences = Students

SpecThreads == InitThreads /\ [][NextThreads]_vars

\* ================================================================ properties
\* What a batch returned.
BatchDone == last.op = "run_allocation"
Registered == {i \in 1..Len(last.results) : last.results[i].status = REGISTERED}
RegisteredIn(results, c) ==
    {i \in 1..Len(results) : results[i].status = REGISTERED /\ results[i].cid = c}

\* C1: after any sequence of apply, manual_register, run_allocation and
\* process_dropout calls every course has
\* 0 <= current_enrollment <= floor(capacity * (1 + allow_oversubscription)).
C1_EnrollmentWithinEffectiveCapacity ==
    \A c \in Courses :
        /\ 0 <= current_enrollment[c]
        /\ current_enrollment[c] <= MaxCapacity(c, oversub)

\* C2: for every (student, course) the student is in at most one of the
\* course's enrolled set and the course's waitlist.
C2_EnrolledOrWaitlistedNotBoth ==
    \A c \in Courses : enrollments[c] \cap Members(waitlist[c]) = {}

\* C3: a BALANCED batch over one eligible course with N waitlisted students,
\* each waitlisted only there, and f free seats up to the effective capacity
\* registers exactly min(N, f) students: current_enrollment grows by min(N, f)
\* and the waitlist keeps N - min(N, f) students.
C3_BalancedRegistersMinOfWaitingAndFree ==
    [][(/\ strategy = BALANCED
        /\ last'.op = "run_allocation"
        /\ Len(last'.courses) = 1
        /\ \A s \in Members(waitlist[last'.courses[1]]) :
               \A c2 \in Courses \ {last'.courses[1]} : s \notin Members(waitlist[c2]))
       => LET c == last'.courses[1]
              N == Len(waitlist[c])
              f == MaxCapacity(c, oversub) - current_enrollment[c]
              m == Min(N, f)
          IN  /\ Cardinality(RegisteredIn(last'.results, c)) = m
              /\ current_enrollment'[c] = current_enrollment[c] + m
              /\ Len(waitlist'[c]) = N - m]_vars

\* C4: in the result map of one run_allocation call every student has at most
\* one REGISTERED result, and the batch newly enrols every student in at most
\* one course.
C4_OneRegistrationPerStudentPerBatch ==
    [][last'.op = "run_allocation"
       => \A s \in Students :
              /\ Cardinality({i \in 1..Len(last'.results) :
                                 /\ last'.results[i].sid = s
                                 /\ last'.results[i].status = REGISTERED}) <= 1
              /\ Cardinality({c \in Courses :
                                 s \in enrollments'[c] \ enrollments[c]}) <= 1]_vars

\* C4 witness: a batch registered a student in one course and left the same
\* student waiting on another course of the batch that still has a free seat.
C4_Witness ==
    /\ BatchDone
    /\ \E i \in Registered : \E c \in Range(last.courses) \ {last.results[i].cid} :
           /\ last.results[i].sid \in Members(waitlist[c])
           /\ current_enrollment[c] < MaxCapacity(c, oversub)

\* C5: after a BALANCED batch on a single course, every student the batch
\* enrolled has a score greater than or equal to the score of every student
\* left on that course's waitlist.
C5_BalancedMonotoneCut ==
    (strategy = BALANCED /\ BatchDone /\ Len(last.courses) = 1)
    => \A i \in Registered : \A j \in 1..Len(waitlist[last.courses[1]]) :
           last.results[i].score >= waitlist[last.courses[1]][j][2]

\* C5 witness: a BALANCED batch on one course enrolled a student and left a
\* student with a strictly lower score on the waitlist.
C5_Witness ==
    /\ strategy = BALANCED /\ BatchDone /\ Len(last.courses) = 1
    /\ \E i \in Registered : \E j \in 1..Len(waitlist[last.courses[1]]) :
           last.results[i].score > waitlist[last.courses[1]][j][2]

\* C6: a student already enrolled in course c before a batch is not enrolled
\* in c again by it: the batch returns no REGISTERED result for (student, c)
\* and raises c's current_enrollment only for the students it newly enrols.
C6_BatchDoesNotReEnroll ==
    [][last'.op = "run_allocation"
       => /\ \A i \in 1..Len(last'.results) :
                 last'.results[i].status = REGISTERED
                 => last'.results[i].sid \notin enrollments[last'.results[i].cid]
          /\ \A c \in Courses :
                 current_enrollment'[c] - current_enrollment[c]
                     = Cardinality(enrollments'[c] \ enrollments[c])]_vars

\* The course a batch allocated a student to, None when it allocated none.
AllocatedCourse(s) ==
    IF \E i \in Registered : last.results[i].sid = s
    THEN last.results[CHOOSE i \in Registered : last.results[i].sid = s].cid
    ELSE None

\* The student lists the course and ranks it strictly above the course the
\* batch allocated them, or was left unallocated.
PrefersToOutcome(s, c) ==
    /\ s \in DOMAIN preferences
    /\ c \in Range(preferences[s])
    /\ \/ AllocatedCourse(s) = None
       \/ GetPriority(preferences[s], c)
              < GetPriority(preferences[s], AllocatedCourse(s))

\* The course has a free seat within its effective capacity, or the batch placed
\* in it a student whose score is strictly lower than the student's score there
\* (the score the batch used: the waitlist score, 0 without one).
CourseWouldTake(s, c) ==
    \/ current_enrollment[c] < MaxCapacity(c, oversub)
    \/ \E i \in Registered :
           /\ last.results[i].cid = c
           /\ last.results[i].score < StudentScore(waitlist, s, c)

\* C7: the matching a STUDENT_OPTIMAL batch commits is stable: among the
\* students and the courses of the batch there is no pair such that the student
\* ranks the course strictly above the course they were allocated (or was left
\* unallocated while listing it) and the course has a free seat within its
\* effective capacity or holds an allocated student with a strictly lower score.
C7_StudentOptimalStable ==
    (strategy = STUDENT_OPTIMAL /\ BatchDone)
    => \A s \in Students : \A c \in Range(last.courses) :
           ~(PrefersToOutcome(s, c) /\ CourseWouldTake(s, c))

\* C7 witness: a STUDENT_OPTIMAL batch turned a student with a waitlist score
\* away from their first choice, which it filled with students of greater or
\* equal score, and allocated them their second choice.
C7_Witness ==
    /\ strategy = STUDENT_OPTIMAL /\ BatchDone
    /\ \E i \in Registered :
           LET s == last.results[i].sid
               first == preferences[s][1]
           IN  /\ GetPriority(preferences[s], last.results[i].cid) = 2
               /\ first \in Range(last.courses)
               /\ StudentScore(waitlist, s, first) > 0
               /\ Cardinality(RegisteredIn(last.results, first)) = MaxCapacity(first, oversub)
               /\ \A j \in RegisteredIn(last.results, first) :
                      last.results[j].score >= StudentScore(waitlist, s, first)

\* C8: process_dropout(s, c) for a student s enrolled in a full course c whose
\* waitlist is not empty removes s from c's enrollment, enrols the highest-ranked
\* waitlisted student and returns them as REGISTERED with their waitlist score;
\* the waitlist shrinks by exactly one and current_enrollment ends as it began.
C8_DropoutFillsFromWaitlist ==
    [][(/\ last'.op = "process_dropout"
        /\ last'.sid \in enrollments[last'.cid]
        /\ ~HasVacancy(last'.cid, current_enrollment)
        /\ waitlist[last'.cid] # <<>>)
       => LET c == last'.cid
              top == GetAllWaitlisted(waitlist[c])[1]
          IN  /\ last'.sid \notin enrollments'[c]
              /\ top[1] \in enrollments'[c]
              /\ last'.res.status = REGISTERED
              /\ last'.res.sid = top[1]
              /\ last'.res.score = top[2]
              /\ Len(waitlist'[c]) = Len(waitlist[c]) - 1
              /\ current_enrollment'[c] = current_enrollment[c]]_vars

\* C9: process_dropout(s, c) for a student s enrolled in c returns None only
\* when nobody waits on c's waitlist: with a non-empty waitlist the freed seat is
\* filled and a REGISTERED result is returned.
C9_DropoutNoneOnlyIfNobodyWaits ==
    [][(/\ last'.op = "process_dropout"
        /\ last'.sid \in enrollments[last'.cid]
        /\ waitlist[last'.cid] # <<>>)
       => last'.res.status = REGISTERED]_vars

\* The two calls of the threads overlapped: one started while the other ran.
Overlapped(t1, t2) == t1 \in thread[t2].with

\* C10: two manual_register calls that run at the same time against a
\* BOOKING_OPEN course with exactly one vacancy: exactly one returns REGISTERED,
\* the other returns WAITLISTED or REJECTED, and current_enrollment has grown
\* by exactly 1 when both have returned.
C10_ConcurrentManualRegisterOneWinner ==
    \A t1 \in Threads : \A t2 \in Threads \ {t1} :
        (/\ thread[t1].pc = "done" /\ thread[t2].pc = "done"
         /\ thread[t1].op = "manual_register" /\ thread[t2].op = "manual_register"
         /\ thread[t1].cid = thread[t2].cid
         /\ booking_state[thread[t1].cid] = BOOKING_OPEN
         /\ thread[t1].seats0 = 1
         /\ Overlapped(t1, t2))
        => /\ thread[t1].res.status = REGISTERED \/ thread[t2].res.status = REGISTERED
           /\ ~(thread[t1].res.status = REGISTERED /\ thread[t2].res.status = REGISTERED)
           /\ {thread[t1].res.status, thread[t2].res.status} \subseteq
                  {REGISTERED, WAITLISTED, REJECTED}
           /\ current_enrollment[thread[t1].cid] = thread[t1].ce0 + 1

RankOf(wl, s) ==
    LET i == IndexOf(wl, s)
    IN  1 + Cardinality({j \in 1..Len(wl) :
                            \/ wl[j][2] > wl[i][2]
                            \/ (wl[j][2] = wl[i][2] /\ j < i)})

\* C12: when apply or manual_register returns WAITLISTED for (student, course)
\* the student is on that course's waitlist as the call returns; for apply the
\* reported position is the student's 1-based rank and the reported score is
\* the score stored on the waitlist.
C12_WaitlistedMeansOnWaitlist ==
    [][/\ (/\ nops' = nops + 1
           /\ last'.op \in {"apply", "manual_register"}
           /\ last'.res.status = WAITLISTED)
          => /\ last'.sid \in Members(waitlist'[last'.cid])
             /\ last'.op = "apply"
                => /\ last'.res.pos = RankOf(waitlist'[last'.cid], last'.sid)
                   /\ last'.res.score = ZScore(waitlist'[last'.cid], last'.sid)
       /\ \A t \in Threads :
              (/\ thread[t].pc # "done" /\ thread'[t].pc = "done"
               /\ thread'[t].op = "manual_register"
               /\ thread'[t].res.status = WAITLISTED)
              => thread'[t].sid \in Members(waitlist'[thread'[t].cid])]_vars

\* C13: apply and apply_all change no enrollment set and no current_enrollment,
\* in any booking state and with or without a vacancy; enrollment changes only
\* through manual_register, run_allocation and process_dropout.
C13_ApplyNeverEnrols ==
    [][/\ (nops' = nops + 1 /\ last'.op \in {"apply", "apply_all"})
          => /\ enrollments' = enrollments
             /\ current_enrollment' = current_enrollment
       /\ (enrollments' # enrollments \/ current_enrollment' # current_enrollment)
          => last'.op \in {"manual_register", "run_allocation", "process_dropout"}]_vars

\* C13 witness: an apply for a BOOKING_OPEN course with a free seat came back
\* WAITLISTED, the student not enrolled.
C13_Witness ==
    /\ last.op = "apply" /\ last.res.status = WAITLISTED
    /\ booking_state[last.cid] = BOOKING_OPEN
    /\ HasVacancy(last.cid, current_enrollment)
    /\ last.sid \notin enrollments[last.cid]
    /\ last.sid \in Members(waitlist[last.cid])

\* C14: once complete_course(c) has returned true, every later apply for c
\* returns REJECTED and adds no waitlist entry.
C14_NoApplyAfterCompletion ==
    [][(nops' = nops + 1 /\ last'.op = "apply" /\ last'.cid \in completed)
       => /\ last'.res.status = REJECTED
          /\ waitlist' = waitlist]_vars

\* C15: complete_course(c) evicts the pending applications of c: the waitlist
\* of c is empty when it returns, and no later vacancy fill on the completed
\* course enrols a student from it.
C15_CompletionEvictsWaitlist ==
    [][/\ (nops' = nops + 1 /\ last'.op = "complete_course")
          => waitlist'[last'.cid] = <<>>
       /\ (/\ nops' = nops + 1 /\ last'.op = "process_dropout"
           /\ booking_state[last'.cid] = COURSE_COMPLETED)
          => last'.res.status # REGISTERED]_vars

\* C16: manual_register returns REGISTERED only if the course is BOOKING_OPEN
\* and has a vacancy at the moment the student is enrolled; a call made while
\* the course is not BOOKING_OPEN or has no vacancy returns REJECTED and
\* leaves enrollment, waitlist and lock state unchanged.
C16_ManualRegisterAdmissible ==
    [][/\ \A t \in Threads :
              (thread[t].pc = "mr_enroll" /\ thread'[t].pc = "inc_read")
              => /\ booking_state[thread[t].cid] = BOOKING_OPEN
                 /\ HasVacancy(thread[t].cid, current_enrollment)
       /\ \A t \in Threads :
              (/\ thread[t].pc = "idle" /\ thread'[t].op = "manual_register"
               /\ \/ booking_state[thread'[t].cid] # BOOKING_OPEN
                  \/ ~HasVacancy(thread'[t].cid, current_enrollment))
              => /\ thread'[t].pc = "done"
                 /\ thread'[t].res.status = REJECTED
                 /\ UNCHANGED EngineState
       /\ (nops' = nops + 1 /\ last'.op = "manual_register" /\ last'.cid \in Courses)
          => LET admissible == /\ booking_state[last'.cid] = BOOKING_OPEN
                               /\ HasVacancy(last'.cid, current_enrollment)
             IN  /\ last'.res.status = REGISTERED => admissible
                 /\ ~admissible => /\ last'.res.status = REJECTED
                                   /\ UNCHANGED EngineState]_vars

\* C17: a REGISTERED outcome enrols the student and removes them from the
\* course's waitlist in one atomic step: whenever a step enrols a student
\* while another call is in progress, the student is off that course's
\* waitlist in the state the other call sees.
C17_EnrolAndDequeueAtomic ==
    [][\A s \in Students, c \in Courses :
           (/\ s \notin enrollments[c]
            /\ s \in enrollments'[c]
            /\ \E u \in Threads : Running(u) /\ thread'[u] = thread[u])
           => s \notin Members(waitlist'[c])]_vars

\* C18: adding a (course, student) entry is insert-or-overwrite and
\* idempotent: every student appears at most once in a course's waitlist; an
\* apply that adds a student already on the waitlist leaves its size and the
\* other entries unchanged, one that adds a new student lengthens it by one;
\* the stored score is the score of that latest application; and adding the
\* score already stored changes nothing.
C18_AddIsInsertOrOverwrite ==
    [][/\ \A c \in Courses : \A i, j \in 1..Len(waitlist'[c]) :
              waitlist'[c][i][1] = waitlist'[c][j][1] => i = j
       /\ (nops' = nops + 1 /\ last'.op = "apply" /\ last'.res.status = WAITLISTED)
          => LET s == last'.sid
                 old == waitlist[last'.cid]
                 new == waitlist'[last'.cid]
             IN  /\ Len(new) = (IF s \in Members(old) THEN Len(old) ELSE Len(old) + 1)
                 /\ \A i \in 1..Len(old) : old[i][1] # s => new[i] = old[i]
                 /\ ZScore(new, s) = last'.res.score
                 /\ ZScore(old, s) = last'.res.score => waitlist' = waitlist]_vars

\* A student already waitlisted with one score has applied again with another.
C18_Witness ==
    /\ last.op = "apply"
    /\ last.res.status = WAITLISTED
    /\ last.before # NoNumber
    /\ last.before # last.res.score
    /\ ZScore(waitlist[last.cid], last.sid) = last.res.score

\* C19: get_waitlist_position of a waitlisted student is 1 plus the number of
\* students on the same waitlist with a strictly greater score, or with an
\* equal score and an earlier insertion; it is None for a student who is not
\* on the waitlist.
C19_PositionCountsBetterEntries ==
    [][last'.op = "get_waitlist_status"
       => LET wl == waitlist[last'.cid]
              s == last'.sid
          IN  last'.res.pos = (IF s \in Members(wl) THEN RankOf(wl, s) ELSE NoNumber)]_vars

\* The student asked about shares a score with a student inserted earlier and
\* stands above a student with a smaller score.
C19_Witness ==
    /\ last.op = "get_waitlist_status"
    /\ last.res.pos = 2
    /\ LET wl == waitlist[last.cid]
       IN  /\ Len(wl) = 3
           /\ \E i, j, l \in 1..3 :
                  /\ wl[j][1] = last.sid
                  /\ i < j
                  /\ wl[i][2] = wl[j][2]
                  /\ wl[l][2] < wl[j][2]

\* C20: get_top_candidates(course, k) returns exactly min(k, waitlist size)
\* entries for every k >= 0: distinct (student, score) pairs of the waitlist in
\* descending score order, none of them scored below an entry left out; and
\* the waitlist is not modified.
C20_TopCandidatesReturnsMinOfCountAndSize ==
    [][last'.op = "get_top_candidates"
       => LET wl == waitlist[last'.cid]
              r == last'.results
              entries == {wl[i] : i \in 1..Len(wl)}
              returned == {r[i] : i \in 1..Len(r)}
          IN  /\ Len(r) = Min(last'.count, Len(wl))
              /\ returned \subseteq entries
              /\ Cardinality(returned) = Len(r)
              /\ \A i, j \in 1..Len(r) : i < j => r[i][2] >= r[j][2]
              /\ \A e \in entries \ returned : \A i \in 1..Len(r) : r[i][2] >= e[2]
              /\ waitlist' = waitlist]_vars

\* The call of thread t is between its acquire_course_lock and the end of
\* its release_course_lock.
InCriticalSection(t) ==
    thread[t].pc \in {"mr_recheck", "mr_enroll", "inc_read", "inc_write", "mr_zrem",
                      "fv_top", "fv_zrem", "fv_enroll", "unlock"}

\* C21: the per-course lock is mutually exclusive and non-reentrant: an
\* acquire on a held lock returns false, an acquire on a free lock succeeds
\* whatever the locks of other courses, and at most one call at a time is
\* inside the critical section of a course.
C21_LockMutuallyExclusive ==
    [][/\ \A t \in Threads :
              (thread[t].pc = "lock_test" /\ thread'[t].pc # "lock_test")
              => (thread'[t].pc = "lock_set" <=> ~locks[thread[t].cid])
       /\ \A t, u \in Threads :
              (t # u /\ InCriticalSection(t)' /\ InCriticalSection(u)')
              => thread'[t].cid # thread'[u].cid]_vars

\* ------------------------------------------------------ a holder that dies
\* The thread holding a course lock dies inside the critical section: its
\* "finally" never runs and the key "lock:course:c" stays in _strings.
Crash(t) ==
    /\ InCriticalSection(t)
    /\ thread' = [thread EXCEPT ![t].pc = "crashed"]
    /\ UNCHANGED <<EngineState, Fixed>>

\* The locks a dead thread left behind.
Orphaned == {c \in Courses : locks[c] /\ \E t \in Threads :
                                 thread[t].pc = "crashed" /\ thread[t].cid = c}

\* The timeout given to acquire_course_lock (ex=timeout) passes. InMemoryRedis.set
\* ignores its parameter ex, so nothing happens to the key.
TimeoutElapses ==
    /\ ~(Orphaned \subseteq ttl_elapsed)
    /\ ttl_elapsed' = ttl_elapsed \cup Orphaned
    /\ UNCHANGED <<EngineState, booking_state, opened, Config, last, nops, completed,
                   thread, Background, batch>>

NextCrash ==
    \/ NextThreads
    \/ \E t \in Threads : Crash(t)
    \/ TimeoutElapses

SpecCrash == InitThreads /\ [][NextCrash]_vars

\* C22: a course lock whose holder died expires after its timeout: once the
\* timeout has elapsed, an acquire_course_lock on that course succeeds
\* (nobody else being inside the course's critical section).
C22_OrphanedLockExpires ==
    [][\A t \in Threads :
           (/\ thread[t].pc = "lock_test"
            /\ thread'[t].pc # "lock_test"
            /\ thread[t].cid \in ttl_elapsed
            /\ \A u \in Threads : InCriticalSection(u) => thread[u].cid # thread[t].cid)
           => thread'[t].pc = "lock_set"]_vars

\* ------------------------------------------------------ the periodic batch
\* start_auto_batch and stop_auto_batch are called from the threads Callers;
\* each thread start_auto_batch creates runs _batch_loop. A step is one read
\* or write of _batch_thread or _stop_batch; a batch iteration is one step.

\* Calls one calling thread makes, and applications made meanwhile.
MaxCalls == 2
MaxApplied == 1

\* threading.Thread.is_alive
Alive(w) == worker[w] \in {"test", "run", "except", "wait"}

CallerAt(a, label) == [caller EXCEPT ![a].pc = label]

NotBackground ==
    <<EngineState, booking_state, opened, Config, last, nops, completed, ttl_elapsed,
      thread, batch>>

\* start_auto_batch: "if self._batch_thread and self._batch_thread.is_alive()".
StartCheck(a) ==
    /\ caller[a].pc = "idle"
    /\ caller[a].calls < MaxCalls
    /\ caller' = [caller EXCEPT ![a].calls = @ + 1,
                                ![a].pc = IF batch_thread # None /\ Alive(batch_thread)
                                          THEN "idle" ELSE "start_clear"]
    /\ stop_called' = FALSE
    /\ UNCHANGED <<NotBackground, stop_batch, batch_thread, worker>>

\* start_auto_batch: self._stop_batch.clear()
StartClear(a) ==
    /\ caller[a].pc = "start_clear"
    /\ stop_batch' = FALSE
    /\ caller' = CallerAt(a, "start_create")
    /\ stop_called' = FALSE
    /\ UNCHANGED <<NotBackground, batch_thread, worker>>

\* start_auto_batch: the Thread is created, stored in _batch_thread and
\* started.
StartCreate(a) ==
    /\ caller[a].pc = "start_create"
    /\ \E i \in 1..Len(WorkerOrder) :
           /\ worker[WorkerOrder[i]] = "unborn"
           /\ \A j \in 1..(i - 1) : worker[WorkerOrder[j]] # "unborn"
           /\ worker' = [worker EXCEPT ![WorkerOrder[i]] = "test"]
           /\ batch_thread' = WorkerOrder[i]
    /\ caller' = CallerAt(a, "idle")
    /\ stop_called' = FALSE
    /\ UNCHANGED <<NotBackground, stop_batch>>

\* stop_auto_batch: self._stop_batch.set(), then "if self._batch_thread".
StopSet(a) ==
    /\ caller[a].pc = "idle"
    /\ caller[a].calls < MaxCalls
    /\ stop_batch' = TRUE
    /\ stop_called' = TRUE
    /\ caller' = [caller EXCEPT ![a].calls = @ + 1,
                                ![a].pc = IF batch_thread # None THEN "stop_join"
                                          ELSE "idle"]
    /\ UNCHANGED <<NotBackground, batch_thread, worker>>

\* stop_auto_batch: self._batch_thread.join(timeout=5) returns, the thread
\* dead or the five seconds over.
StopJoin(a) ==
    /\ caller[a].pc = "stop_join"
    /\ caller' = CallerAt(a, "idle")
    /\ UNCHANGED <<NotBackground, stop_batch, batch_thread, worker, stop_called>>

\* A loop that never looks at the event, which loses the stop of C25.
LoopIgnoresStop(w) ==
    /\ worker[w] = "test"
    /\ worker' = [worker EXCEPT ![w] = "run"]
    /\ UNCHANGED <<NotBackground, stop_batch, batch_thread, caller, stop_called>>

\* _batch_loop: "while not self._stop_batch.is_set()"
LoopTest(w) ==
    /\ worker[w] = "test"
    /\ worker' = [worker EXCEPT ![w] = IF stop_batch THEN "dead" ELSE "run"]
    /\ UNCHANGED <<NotBackground, stop_batch, batch_thread, caller, stop_called>>

\* _batch_loop: self.run_allocation() returns.
BatchRun(w, order) ==
    /\ worker[w] = "run"
    /\ \E courses \in {EligibleCourses(FALSE, <<>>, booking_state)} :
       \E r \in {RunBatchAllocation(strategy, courses, booking_state, order,
                                    preferences, oversub, Engine)} :
           /\ current_enrollment' = r.ce
           /\ enrollments' = r.enr
           /\ waitlist' = r.wl
    /\ worker' = [worker EXCEPT ![w] = "wait"]
    /\ UNCHANGED <<locks, booking_state, opened, Config, last, nops, completed,
                   ttl_elapsed, thread, batch, stop_batch, batch_thread, caller,
                   stop_called>>

\* _batch_loop: self.run_allocation() raises an Exception (taken here before
\* the batch has changed anything).
BatchRaises(w) ==
    /\ worker[w] = "run"
    /\ worker' = [worker EXCEPT ![w] = "except"]
    /\ UNCHANGED <<NotBackground, stop_batch, batch_thread, caller, stop_called>>

\* An exception that ends _batch_loop, which loses the next iteration of C23.
ExceptionEndsLoop(w) ==
    /\ worker[w] = "except"
    /\ worker' = [worker EXCEPT ![w] = "dead"]
    /\ UNCHANGED <<NotBackground, stop_batch, batch_thread, caller, stop_called>>

\* _batch_loop: "except Exception as e: logger.error(...)".
HandleException(w) ==
    /\ worker[w] = "except"
    /\ worker' = [worker EXCEPT ![w] = "wait"]
    /\ UNCHANGED <<NotBackground, stop_batch, batch_thread, caller, stop_called>>

\* _batch_loop: self._stop_batch.wait(timeout=...) returns, the event set or
\* the interval over.
WaitInterval(w) ==
    /\ worker[w] = "wait"
    /\ worker' = [worker EXCEPT ![w] = "test"]
    /\ UNCHANGED <<NotBackground, stop_batch, batch_thread, caller, stop_called>>

WorkerStep(w) ==
    \/ LoopTest(w)
    \/ \E order \in VisitOrders : BatchRun(w, order)
    \/ BatchRaises(w)
    \/ HandleException(w)
    \/ WaitInterval(w)

NextWorker ==
    \/ \E a \in Callers : StartCheck(a)
    \/ \E a \in Callers : StartClear(a)
    \/ \E a \in Callers : StartCreate(a)
    \/ \E a \in Callers : StopSet(a)
    \/ \E a \in Callers : StopJoin(a)
    \/ \E w \in Workers : WorkerStep(w)
    \/ \E s \in Students, c \in Courses : nops < MaxApplied /\ Apply(s, c, 0)

\* The service as RegistrationService() builds it: BatchAllocationConfig()
\* with its default strategy and no oversubscription; every student has
\* preferences and the prerequisite.
InitWorker ==
    /\ Init
    /\ strategy = BALANCED
    /\ oversub = 0
    /\ DOMAIN preferences = Students
    /\ completed_courses["s3"] = {"p1"}

SpecWorker == InitWorker /\ [][NextWorker]_vars

\* The scheduler runs every live thread, and run_allocation and the wait end.
SpecWorkerFair ==
    /\ SpecWorker
    /\ \A w \in Workers :
           /\ WF_vars(LoopTest(w))
           /\ WF_vars(BatchRaises(w) \/ \E order \in VisitOrders : BatchRun(w, order))
           /\ WF_vars(HandleException(w))
           /\ WF_vars(WaitInterval(w))

\* C23: an exception raised inside one iteration of the periodic batch does
\* not stop the worker: unless stop is requested, the worker goes on to wait
\* and then starts the next iteration.
C23_ExceptionDoesNotStopWorker ==
    \A w \in Workers : (worker[w] = "except") ~> (worker[w] = "run" \/ stop_batch)

\* run_allocation has raised in the worker's iteration, stop not requested.
C23_Witness == \E w \in Workers : worker[w] = "except" /\ ~stop_batch

\* C24: in every interleaving of start_auto_batch and stop_auto_batch calls
\* at most one background worker is alive, no two batch iterations overlap,
\* and a start_auto_batch does not create a worker while another is alive.
C24_AtMostOneWorker ==
    [][/\ \A v, w \in Workers : (Alive(v)' /\ Alive(w)') => v = w
       /\ \A v, w \in Workers :
              (worker'[v] \in {"run", "except"} /\ worker'[w] \in {"run", "except"})
              => v = w
       /\ \A w \in Workers :
              (worker[w] = "unborn" /\ worker'[w] # "unborn")
              => \A v \in Workers : ~Alive(v)]_vars

\* C25: after stop_auto_batch has been called, and as long as
\* start_auto_batch is not called again, no worker starts a new batch
\* iteration, and every worker eventually terminates.
C25_StopEndsWorker ==
    /\ [][stop_called => \A w \in Workers : ~(worker[w] = "test" /\ worker'[w] = "run")]_vars
    /\ stop_called ~> (~stop_called \/ \A w \in Workers : ~Alive(w))

\* The worker stop_auto_batch signalled has left its loop.
C25_Witness ==
    /\ stop_called
    /\ batch_thread # None
    /\ worker[batch_thread] = "dead"

\* BatchAllocationConfig.max_courses_per_student, as
\* create_registration_service(max_courses_per_student=1) sets it. No
\* statement of the engine or of the service reads the field.
max_courses_per_student == 1

\* C26: no student is ever enrolled in more than max_courses_per_student
\* courses.
C26_CoursesPerStudentBounded ==
    \A s \in Students :
        Cardinality(StudentCourses(enrollments, s)) <= max_courses_per_student

\* ------------------------------------------------- the configuration given
\* The allow_oversubscription values BatchAllocationConfig is constructed
\* with, in percent: a negative one and the default.
OversubArguments == {0 - 50, 0}

\* BatchAllocationConfig(allow_oversubscription=pct): a dataclass without
\* __post_init__, which accepts every value.
ConfigAccepts(pct) == TRUE

InitConfig == InitWith({pct \in OversubArguments : ConfigAccepts(pct)})

SpecConfig == InitConfig /\ [][Next]_vars

\* C27: a negative allow_oversubscription is refused at construction, so no
\* batch ever runs with an effective capacity below the course capacity.
C27_NoNegativeOversubscription ==
    [][(nops' = nops + 1 /\ last'.op = "run_allocation")
       => /\ oversub >= 0
          /\ \A c \in Courses : MaxCapacity(c, oversub) >= capacity[c]]_vars

\* ------------------------------------------------- scoring with any weights
\* The weights ScoringWeights is constructed with, in thousandths: the
\* defaults, two other sets that sum to 1.0 +/- 0.01, and one that does not.
WeightArguments ==
    {<<350, 300, 200, 100, 50>>, <<250, 408, 200, 100, 50>>,
     <<2000, 0 - 1000, 0, 0, 0>>, <<400, 300, 200, 100, 50>>}

\* ScoringWeights.__post_init__: "if not (0.99 <= total <= 1.01): raise".
WeightsAccepted(w) ==
    LET total == w[1] + w[2] + w[3] + w[4] + w[5]
    IN  990 <= total /\ total <= 1010

\* The component scores of ScoringEngine.compute_score, in thousandths.
ComponentScores(s, c, known, k) ==
    <<ComputeGpaScore(s, c), ComputeInterestScore(s, c), ComputeTimeScore(known, k),
      ComputeYearScore(s, c), ComputePrerequisiteScore(s, c)>>

\* composite_score of ScoringEngine.compute_score under the weights w, in
\* millionths.
CompositeScore(w, scores) ==
    w[1] * scores[1] + w[2] * scores[2] + w[3] * scores[3] + w[4] * scores[4]
    + w[5] * scores[5]

\* ScoringEngine(weights=ScoringWeights(w)).compute_score(student, course,
\* applied_at): the construction raises ValueError, or the scores come back.
ComputeScoreCall(w, s, c, k) ==
    /\ last' =
           IF WeightsAccepted(w)
           THEN LET scores == ComponentScores(s, c, opened[c], k)
                IN  Call("compute_score", s, c,
                         Result(s, c, None, None, CompositeScore(w, scores), NoNumber),
                         scores, <<>>)
           ELSE Call("compute_score", s, c,
                     Result(s, c, None, "ValueError", NoNumber, NoNumber), <<>>, <<>>)
    /\ UNCHANGED <<booking_state, current_enrollment, opened, enrollments, waitlist,
                   locks, Config, nops, thread, completed, ttl_elapsed, Background, batch>>

NextScoring ==
    \/ \E w \in WeightArguments, s \in Students, c \in Courses, k \in 0..MaxHalvings :
           ComputeScoreCall(w, s, c, k)
    \/ \E c \in Courses : OpenBooking(c)

SpecScoring == Init /\ [][NextScoring]_vars

\* C28: under every weight set accepted at construction, each component
\* score is in [0, 1] and so is the composite score.
C28_ScoresWithinUnitInterval ==
    [][(last'.op = "compute_score" /\ last'.res.message # "ValueError")
       => /\ \A i \in 1..Len(last'.results) :
                 0 <= last'.results[i] /\ last'.results[i] <= 1000
          /\ 0 <= last'.res.score
          /\ last'.res.score <= 1000000]_vars

\* C29: every change that a manual_register or process_dropout call makes to a
\* course's enrollment set, current_enrollment or waitlist is made while the
\* caller holds the lock of that course; process_dropout discards the student
\* and decrements current_enrollment under the lock.
C29_MutationsUnderCourseLock ==
    [][\A t \in Threads :
          (/\ thread'[t] # thread[t]
           /\ thread[t].op \in {"manual_register", "process_dropout"}
           /\ \/ enrollments' # enrollments
              \/ current_enrollment' # current_enrollment
              \/ waitlist' # waitlist)
          => /\ InCriticalSection(t)
             /\ locks[thread[t].cid]]_vars


\* C30: a manual_register or fill_vacancy call that acquired a course lock
\* releases it before it returns, on every path (success, vacancy lost on the
\* double check, empty waitlist); no call holds more than one course lock;
\* hence no course lock is held while no call is in progress.
C30_LockReleasedOnEveryPath ==
    /\ [](\A c \in Courses :
             locks[c] => \E t \in Threads : InCriticalSection(t) /\ thread[t].cid = c)
    /\ []((\A t \in Threads : ~Running(t)) => \A c \in Courses : ~locks[c])
    /\ [][\A t \in Threads :
             /\ (InCriticalSection(t) /\ thread'[t].pc = "done")
                    => /\ thread[t].pc = "unlock"
                       /\ ~locks'[thread[t].cid]
             /\ (InCriticalSection(t) /\ InCriticalSection(t)')
                    => thread'[t].cid = thread[t].cid
             /\ (thread[t].pc = "lock_set" /\ thread'[t].pc # "lock_set")
                    => \A c \in Courses : locks'[c] # locks[c] => c = thread[t].cid]_vars

\* A manual_register lost the vacancy on the double check and has returned;
\* no call is in progress and no lock is held.
C30_Witness ==
    /\ \E t \in Threads : /\ thread[t].pc = "done"
                          /\ thread[t].op = "manual_register"
                          /\ thread[t].res.message = "Vacancy filled while processing"
    /\ \A t \in Threads : ~Running(t)
    /\ \A c \in Courses : ~locks[c]

\* C31: whenever student.gpa < course.min_gpa, apply returns REJECTED with the
\* message that gives the student's GPA and the course minimum, also when the
\* student lacks prerequisites as well (the GPA gate comes first).
C31_GpaGateReportedFirst ==
    [][(/\ nops' = nops + 1
        /\ last'.op = "apply"
        /\ last'.sid \in Students
        /\ last'.cid \in Courses
        /\ gpa[last'.sid] < min_gpa[last'.cid])
       => /\ last'.res.status = REJECTED
          /\ last'.res.message = "GPA below minimum"]_vars

\* C32: a BALANCED batch processes the waitlist tuples by descending score and,
\* among equal scores, by ascending priority rank of the student: of two tuples
\* of one course with equal score, the one whose student ranks the course lower
\* is registered there only after the other student has been registered.
C32_TieBrokenByPriorityRank ==
    [][(strategy = BALANCED /\ nops' = nops + 1 /\ last'.op = "run_allocation")
       => LET res == last'.results
              Pri(s, c) == IF s \in DOMAIN preferences
                           THEN GetPriority(preferences[s], c) ELSE 999
          IN  /\ \A i, j \in 1..Len(res) :
                     i < j => \/ res[i].score > res[j].score
                              \/ /\ res[i].score = res[j].score
                                 /\ Pri(res[i].sid, res[i].cid) <= Pri(res[j].sid, res[j].cid)
              /\ \A i \in 1..Len(res) :
                     res[i].status = REGISTERED
                     => \A s \in Members(waitlist[res[i].cid]) :
                            (/\ ZScore(waitlist[res[i].cid], s) = res[i].score
                             /\ Pri(s, res[i].cid) < Pri(res[i].sid, res[i].cid))
                            => \E j \in 1..(i - 1) :
                                   res[j].sid = s /\ res[j].status = REGISTERED]_vars

\* C32 witness: a BALANCED batch registered a student in a course and turned
\* away, for capacity, a student with the same score who ranks the course lower.
C32_Witness ==
    /\ strategy = BALANCED
    /\ BatchDone
    /\ \E i, j \in 1..Len(last.results) :
           /\ i < j
           /\ last.results[i].cid = last.results[j].cid
           /\ last.results[i].status = REGISTERED
           /\ last.results[j].status = WAITLISTED
           /\ last.results[i].score = last.results[j].score
           /\ last.results[i].sid \in DOMAIN preferences
           /\ GetPriority(preferences[last.results[i].sid], last.results[i].cid)
                  < (IF last.results[j].sid \in DOMAIN preferences
                     THEN GetPriority(preferences[last.results[j].sid], last.results[j].cid)
                     ELSE 999)

\* C33: in a STUDENT_OPTIMAL batch a student proposes only to preferred courses
\* for which they have a computed score, that is a waitlist entry: the batch
\* enrols no student in a course on whose waitlist the student is not.
C33_StudentOptimalEnrolsOnlyApplicants ==
    [][(strategy = STUDENT_OPTIMAL /\ nops' = nops + 1 /\ last'.op = "run_allocation")
       => /\ \A i \in 1..Len(last'.results) :
                 last'.results[i].status = REGISTERED
                 => last'.results[i].sid \in Members(waitlist[last'.results[i].cid])
          /\ \A c \in Courses :
                 enrollments'[c] \ enrollments[c] \subseteq Members(waitlist[c])]_vars

\* -------------------------------------- the proposal loop, round by round
\* _student_optimal_allocation up to its while loop: the locals are set and
\* student_scores is read from the waitlists of the batch's courses.
SoStart(arg, order) ==
    /\ batch.pc = "idle"
    /\ strategy = STUDENT_OPTIMAL
    /\ batch' = [pc |-> "so_while",
                 courses |-> EligibleCourses(arg.given, arg.ids, booking_state),
                 order |-> order,
                 active |-> DOMAIN preferences,
                 d |-> [idx |-> [s \in DOMAIN preferences |-> 0],
                        tentative |-> [c \in Courses |-> <<>>],
                        tkeys |-> <<>>, new_active |-> {}]]
    /\ UNCHANGED <<EngineState, booking_state, opened, Config, last, nops, completed,
                   ttl_elapsed, thread, Background>>

\* "while active_students:" entered, and the for loop over the active students.
SoPropose ==
    /\ batch.pc = "so_while"
    /\ batch.active # {}
    /\ batch' = [batch EXCEPT
                    !.pc = "so_keep",
                    !.d = ProposeLoop(batch.order, batch.active,
                                      [batch.d EXCEPT !.new_active = {}],
                                      preferences, Range(batch.courses), waitlist)]
    /\ UNCHANGED <<EngineState, booking_state, opened, Config, last, nops, completed,
                   ttl_elapsed, thread, Background>>

\* "Each course keeps the best candidates", then active_students = new_active.
SoKeep ==
    /\ batch.pc = "so_keep"
    /\ LET kept == KeepLoop(batch.d.tkeys, batch.d, oversub)
       IN  batch' = [batch EXCEPT !.pc = "so_while", !.d = kept,
                                  !.active = kept.new_active]
    /\ UNCHANGED <<EngineState, booking_state, opened, Config, last, nops, completed,
                   ttl_elapsed, thread, Background>>

\* The while loop left: "Finalize allocations", and run_allocation returns.
SoFinalize ==
    /\ batch.pc = "so_while"
    /\ batch.active = {}
    /\ \E r \in {FinalizeLoop(batch.d.tkeys, batch.d.tentative,
                              [ce |-> current_enrollment, enr |-> enrollments,
                               wl |-> waitlist, alloc |-> EmptyMap,
                               fills |-> [c \in Courses |-> 0], results |-> <<>>],
                              preferences)} :
           /\ current_enrollment' = r.ce
           /\ enrollments' = r.enr
           /\ waitlist' = r.wl
           /\ last' = Call("run_allocation", None, None, NoResult, r.results,
                           batch.courses)
    /\ batch' = [batch EXCEPT !.pc = "done"]
    /\ UNCHANGED <<booking_state, opened, locks, Config, nops, thread, completed,
                   ttl_elapsed, Background>>

NextProposals ==
    \/ batch.pc = "idle" /\ Setup
    \/ \E arg \in CourseIdArgs, order \in Orders : SoStart(arg, order)
    \/ SoPropose
    \/ SoKeep
    \/ SoFinalize

InitProposals == Init /\ strategy = STUDENT_OPTIMAL

SpecProposals == InitProposals /\ [][NextProposals]_vars

\* The thread that runs the batch is scheduled again and again.
SpecProposalsFair ==
    /\ SpecProposals
    /\ WF_vars(SoPropose)
    /\ WF_vars(SoKeep)
    /\ WF_vars(SoFinalize)

\* C34: the proposal loop of a STUDENT_OPTIMAL batch terminates, whatever the
\* preference lists (unknown and repeated courses included) and the capacities:
\* no student's proposal index ever goes back, a round in which no active
\* student has a preference left proposes nothing and empties the active set,
\* and a batch that has entered the loop leaves it and returns.
C34_ProposalLoopTerminates ==
    /\ [][(batch.pc \in {"so_while", "so_keep"} /\ batch'.pc \in {"so_while", "so_keep"})
          => \A s \in DOMAIN preferences : batch'.d.idx[s] >= batch.d.idx[s]]_vars
    /\ [][(/\ batch.pc = "so_while"
           /\ batch'.pc = "so_keep"
           /\ \A s \in batch.active : batch.d.idx[s] >= Len(preferences[s]))
          => /\ batch'.d.tentative = batch.d.tentative
             /\ batch'.d.new_active = {}]_vars
    /\ [][(/\ batch.pc = "so_keep"
           /\ batch'.pc = "so_while"
           /\ batch.d.new_active = {}
           /\ \A c \in Courses : Len(batch.d.tentative[c]) <= MaxCapacity(c, oversub))
          => batch'.active = {}]_vars
    /\ [](batch.pc = "so_while"
          => \A c \in Courses : Len(batch.d.tentative[c]) <= MaxCapacity(c, oversub))
    /\ (batch.pc = "so_while") ~> (batch.pc = "done")

\* C34 witness: the batch has returned after a student whose list names an
\* unknown course and repeats a course went through the whole list.
C34_Witness ==
    /\ batch.pc = "done"
    /\ "s2" \in DOMAIN preferences
    /\ preferences["s2"] = <<"c2", "c9", "c2">>
    /\ batch.d.idx["s2"] = 3

\* C35: run_allocation changes the enrollment and the waitlist only of courses
\* in BOOKING_OPEN or BOOKING_CLOSED: a course in COURSE_STARTED or
\* COURSE_COMPLETED has the same enrolled set, current_enrollment and waitlist
\* after the batch as before, under both strategies.
C35_BatchLeavesStartedCoursesAlone ==
    [][(nops' = nops + 1 /\ last'.op = "run_allocation")
       => \A c \in Courses :
              booking_state[c] \in {COURSE_STARTED, COURSE_COMPLETED}
              => /\ enrollments'[c] = enrollments[c]
                 /\ current_enrollment'[c] = current_enrollment[c]
                 /\ waitlist'[c] = waitlist[c]]_vars

\* C35 witness: a batch has run over all courses while a started course had a
\* student waiting and a free seat, and that course is as it was.
C35_Witness ==
    /\ BatchDone
    /\ \E c \in Courses :
           /\ booking_state[c] = COURSE_STARTED
           /\ c \notin Range(last.courses)
           /\ waitlist[c] # <<>>
           /\ current_enrollment[c] < capacity[c]
           /\ \A s \in Members(waitlist[c]) :
                  s \in DOMAIN preferences /\ c \in Range(preferences[s])

\* C36: for every course, current_enrollment equals the number of students in
\* the course's enrolled set after any sequence of operations, repeated
\* manual_register by one student and batches that meet an already enrolled
\* student included.
C36_EnrollmentCountMatchesSet ==
    \A c \in Courses : current_enrollment[c] = Cardinality(enrollments[c])

\* C37: every student enrolled in a course, by manual_register, a BALANCED
\* batch, a STUDENT_OPTIMAL batch or a vacancy fill, meets the gates of the
\* course: gpa >= min_gpa and every prerequisite completed.
C37_EnrolledMeetGates ==
    \A c \in Courses : \A s \in enrollments[c] :
        /\ gpa[s] >= min_gpa[c]
        /\ prerequisites[c] \subseteq completed_courses[s]

\* C38: run_allocation(course_ids) with a list of course ids changes enrollment
\* and waitlists only of the courses named in the list, whatever the list, the
\* empty one included; only an omitted argument means all courses.
C38_BatchTouchesOnlyListedCourses ==
    [][\A arg \in CourseIdArgs, order \in VisitOrders :
           (arg.given /\ RunAllocation(arg.given, arg.ids, order))
           => \A c \in Courses \ Range(arg.ids) :
                  /\ enrollments'[c] = enrollments[c]
                  /\ current_enrollment'[c] = current_enrollment[c]
                  /\ waitlist'[c] = waitlist[c]]_vars

\* ------------------- a BALANCED batch running beside the calls on threads
\* _balanced_allocation up to its allocation loop: the applications are
\* collected from the waitlists and sorted. The batch takes no course lock.
BalStart(arg) ==
    /\ batch.pc = "idle"
    /\ strategy = BALANCED
    /\ LET courses == EligibleCourses(arg.given, arg.ids, booking_state)
       IN  batch' = [pc |-> "bal_next",
                     courses |-> courses,
                     apps |-> SortApplications(AllApplications(courses, booking_state,
                                                               waitlist, preferences)),
                     alloc |-> EmptyMap,
                     fills |-> [c \in Courses |-> 0],
                     results |-> <<>>,
                     tmp |-> 0,
                     with |-> {t \in Threads : Running(t)}]
    /\ UNCHANGED <<EngineState, booking_state, opened, Config, last, nops, completed,
                   ttl_elapsed, thread, Background>>

\* The head of the allocation loop: the batch_allocations test and the
\* capacity test, which reads course.current_enrollment.
BalCheck ==
    /\ batch.pc = "bal_next"
    /\ batch' =
           IF batch.apps = <<>> THEN [batch EXCEPT !.pc = "done"]
           ELSE LET a == Head(batch.apps)
                IN  IF AlreadyAllocated(batch, a)
                    THEN [batch EXCEPT !.apps = Tail(@)]
                    ELSE IF BalancedEnrollment(current_enrollment, batch.fills, a.cid)
                                >= MaxCapacity(a.cid, oversub)
                    THEN [batch EXCEPT
                             !.apps = Tail(@),
                             !.results =
                                 Append(@, Result(a.sid, a.cid, WAITLISTED,
                                                  "Course capacity reached", a.score,
                                                  GetWaitlistPosition(waitlist[a.cid],
                                                                      a.sid)))]
                    ELSE [batch EXCEPT
                             !.pc = "bal_enroll",
                             !.alloc = [s \in DOMAIN @ \cup {a.sid} |->
                                            IF s = a.sid THEN a.cid ELSE @[s]],
                             !.fills[a.cid] = @ + 1]
    /\ UNCHANGED <<EngineState, booking_state, opened, Config, last, nops, completed,
                   ttl_elapsed, thread, Background>>

\* self._enroll_student(student_id, course_id)
BalEnroll ==
    /\ batch.pc = "bal_enroll"
    /\ enrollments' = EnrollStudent(enrollments, Head(batch.apps).sid, Head(batch.apps).cid)
    /\ batch' = [batch EXCEPT !.pc = "bal_inc_read"]
    /\ UNCHANGED <<current_enrollment, waitlist, locks, booking_state, opened, Config,
                   last, nops, completed, ttl_elapsed, thread, Background>>

\* "course.current_enrollment += 1": the read.
BalIncRead ==
    /\ batch.pc = "bal_inc_read"
    /\ batch' = [batch EXCEPT !.pc = "bal_inc_write",
                              !.tmp = current_enrollment[Head(batch.apps).cid]]
    /\ UNCHANGED <<EngineState, booking_state, opened, Config, last, nops, completed,
                   ttl_elapsed, thread, Background>>

\* "course.current_enrollment += 1": the write.
BalIncWrite ==
    /\ batch.pc = "bal_inc_write"
    /\ current_enrollment' =
           [current_enrollment EXCEPT ![Head(batch.apps).cid] = batch.tmp + 1]
    /\ batch' = [batch EXCEPT !.pc = "bal_zrem"]
    /\ UNCHANGED <<enrollments, waitlist, locks, booking_state, opened, Config,
                   last, nops, completed, ttl_elapsed, thread, Background>>

\* self.waitlist.remove_from_waitlist(course_id, student_id), and the result.
BalZrem ==
    /\ batch.pc = "bal_zrem"
    /\ LET a == Head(batch.apps)
       IN  /\ waitlist' = [waitlist EXCEPT ![a.cid] = ZRem(@, a.sid)]
           /\ batch' = [batch EXCEPT
                           !.pc = "bal_next",
                           !.apps = Tail(@),
                           !.results = Append(@, Result(a.sid, a.cid, REGISTERED,
                                                        "Allocated to course", a.score,
                                                        NoNumber))]
    /\ UNCHANGED <<current_enrollment, enrollments, locks, booking_state, opened, Config,
                   last, nops, completed, ttl_elapsed, thread, Background>>

\* The batch, step by step, beside one call on a thread; the calls that set
\* the scene are made before the batch starts.
NextBatchThreads ==
    \/ /\ NextThreads
       /\ thread'["t2"] = thread["t2"]
       /\ batch.pc = "idle" \/ thread' # thread
    \/ \E arg \in CourseIdArgs : BalStart(arg)
    \/ BalCheck
    \/ BalEnroll
    \/ BalIncRead
    \/ BalIncWrite
    \/ BalZrem

SpecBatchThreads == InitThreads /\ [][NextBatchThreads]_vars

\* C39: when a batch allocation runs at the same time as manual_register or
\* process_dropout on a course in which the batch registers a student, then in
\* every interleaving, once the batch and the call have returned, the course's
\* current_enrollment is within its effective capacity and equals the size of
\* its enrolled set.
C39_BatchBesideCallsKeepsCount ==
    \A t \in Threads :
        (/\ batch.pc = "done"
         /\ thread[t].pc = "done"
         /\ t \in batch.with \/ "batch" \in thread[t].with
         /\ RegisteredIn(batch.results, thread[t].cid) # {})
        => /\ current_enrollment[thread[t].cid] <= MaxCapacity(thread[t].cid, oversub)
           /\ current_enrollment[thread[t].cid] = Cardinality(enrollments[thread[t].cid])

\* C40: after start_auto_batch has returned, with no later stop_auto_batch, a
\* live worker goes on to run a batch iteration, also when the call follows a
\* stop_auto_batch whose join timed out with the previous worker inside an
\* iteration: a start_auto_batch that no other call overlaps returns with the
\* worker of _batch_thread alive and the stop event clear, so that the worker's
\* next loop test leads into an iteration.  A call that finds the event set is
\* taken with the previous worker inside an iteration, the case of a join that
\* timed out.
C40_StartLeavesWorkerIterating ==
    [][\A a \in Callers :
          (/\ \A b \in Callers \ {a} : caller[b].pc = "idle"
           /\ caller'[a].pc = "idle"
           /\ \/ /\ caller[a].pc = "idle"
                 /\ caller'[a].calls = caller[a].calls + 1
                 /\ ~stop_called'
                 /\ stop_batch => /\ batch_thread # None
                                  /\ worker[batch_thread] = "run"
              \/ /\ caller[a].pc = "start_create"
                 /\ ~stop_called)
          => /\ batch_thread' # None
             /\ worker'[batch_thread'] \in {"test", "run", "except", "wait"}
             /\ ~stop_batch']_vars

====
